---- MODULE Spec2Model ----
(***************************************************************************)
(* Wall-panel layout optimizer (panel_calculator.py).                      *)
(*                                                                         *)
(* Lengths are written in thousandths of an inch (1 inch = 1000,            *)
(* 0.125 inch = 125) and held as the Python floats the program computes    *)
(* with: see the section on Python floats.                                 *)
(*                                                                         *)
(* place_panels_sequential is modelled as a state machine whose program    *)
(* counter pc walks through the phases of the function: region building,   *)
(* the per-band cursor loop (one action per kind of loop iteration), the   *)
(* region gap fill, the region seam adjustment and the global gap fill.    *)
(***************************************************************************)
EXTENDS Integers, Sequences, FiniteSets, TLC

VARIABLES
    wall_width,            \* argument wall_width
    wall_height,           \* argument wall_height
    openings,              \* argument openings (list of Opening)
    constraints,           \* argument constraints (PanelConstraints); in
                           \* the editor, config.panel_constraints
    orientation,           \* argument orientation; in the editor, the
                           \* panel_orientation of the config under edit
    pc,                    \* position inside place_panels_sequential, or
                           \* the editor's prompt that waits for input
    sorted_openings,       \* local sorted_openings
    blocking_storefronts,  \* local blocking_storefronts
    regular_openings,      \* local regular_openings
    regions,               \* local regions
    ri,                    \* index of the region being processed
    bands,                 \* local bands of the current region
    bi,                    \* index of the band being processed
    x_cursor,              \* local x_cursor
    gap_openings,          \* local gap_openings of the current region
    panels,                \* local panels (the returned list)
    panel_counter,         \* local panel_counter
    last,                  \* what the last cursor-loop iteration did
    walls_rows,            \* process_all_walls: argument walls_rows
    openings_rows,         \* process_all_walls: argument openings_rows
    wi,                    \* process_all_walls: index of the current wall_row
    all_panel_records,     \* process_all_walls: local all_panel_records
    layout_call,           \* calculate_segment_layout called on its own:
                           \* its arguments and its return value
    ACTIVE_CONFIG,         \* module-level ACTIVE_CONFIG
    call                   \* the entry point in progress (process_wall,
                           \* process_all_walls, main or a function of
                           \* the configuration editor) with its
                           \* arguments and locals

vars == <<wall_width, wall_height, openings, constraints, orientation, pc,
          sorted_openings, blocking_storefronts, regular_openings, regions,
          ri, bands, bi, x_cursor, gap_openings, panels, panel_counter, last,
          walls_rows, openings_rows, wi, all_panel_records, layout_call,
          ACTIVE_CONFIG, call>>

inputs == <<wall_width, wall_height, openings, constraints, orientation>>

\* The frame of process_all_walls and the module's globals, out of reach of
\* place_panels_sequential.
caller == <<walls_rows, openings_rows, wi, all_panel_records, ACTIVE_CONFIG,
            call>>

\* Python's None, as the value of ACTIVE_CONFIG or of a config argument.
None == [kind |-> "none"]

\* process_wall(wall_id, wall_width, wall_height, openings) is in progress.
ProcessWallCall == [fn |-> "process_wall"]

\* process_all_walls(walls_rows, openings_rows, output_dir,
\* door_clearances, window_clearances, storefront_clearances, config,
\* orientation) is in progress, called by main or by the UI script.
ProcessAllWallsCall(from, door_clearances, window_clearances, storefront_clearances, config_arg, orientation_arg) ==
    [fn |-> "process_all_walls", from |-> from,
     door_clearances |-> door_clearances,
     window_clearances |-> window_clearances,
     storefront_clearances |-> storefront_clearances,
     config |-> config_arg, orientation |-> orientation_arg]

\* main() is in progress with its local config.
MainCall(config) == [fn |-> "main", config |-> config]

\* No entry point of the module has been called.
NoCall == [fn |-> "none"]

-----------------------------------------------------------------------------
(* Arithmetic helpers *)

Max(a, b) == IF a >= b THEN a ELSE b

Min(a, b) == IF a <= b THEN a ELSE b

Abs(a) == IF a >= 0 THEN a ELSE 0 - a

\* The powers of two from 2^0 to 2^30.
PowersOfTwo ==
    <<1, 2, 4, 8, 16, 32, 64, 128, 256, 512, 1024, 2048, 4096,
      8192, 16384, 32768, 65536, 131072, 262144, 524288, 1048576,
      2097152, 4194304, 8388608, 16777216, 33554432, 67108864,
      134217728, 268435456, 536870912, 1073741824>>

\* 2^n, for n in 0..30.
Pow2(n) == PowersOfTwo[n + 1]

\* 2^n modulo 2000 for n in 0..103: from n = 4 on the residues repeat with
\* the period 100.
PowersOfTwoMod2000 ==
    <<1, 2, 4, 8, 16, 32, 64, 128, 256, 512, 1024, 48, 96, 192,
      384, 768, 1536, 1072, 144, 288, 576, 1152, 304, 608, 1216,
      432, 864, 1728, 1456, 912, 1824, 1648, 1296, 592, 1184, 368,
      736, 1472, 944, 1888, 1776, 1552, 1104, 208, 416, 832, 1664,
      1328, 656, 1312, 624, 1248, 496, 992, 1984, 1968, 1936,
      1872, 1744, 1488, 976, 1952, 1904, 1808, 1616, 1232, 464,
      928, 1856, 1712, 1424, 848, 1696, 1392, 784, 1568, 1136,
      272, 544, 1088, 176, 352, 704, 1408, 816, 1632, 1264, 528,
      1056, 112, 224, 448, 896, 1792, 1584, 1168, 336, 672, 1344,
      688, 1376, 752, 1504, 1008>>

\* 2^n modulo m, for m = 1000 or m = 2000.
Pow2Mod(n, m) ==
    PowersOfTwoMod2000[IF n < 4 THEN n + 1 ELSE 5 + ((n - 4) % 100)] % m

\* The largest k with 2^k <= n, for n >= 1.
Log2(n) == Cardinality({k \in 1..30 : PowersOfTwo[k + 1] <= n})

\* How many times v < 1000 doubles before it reaches 1000, for v > 0.
DoublingsToOne(v) == Cardinality({k \in 0..9 : v * PowersOfTwo[k + 1] < 1000})

\* BinaryExponent(v) is the E with 2^E <= v / 1000 < 2^(E + 1), for v > 0.
BinaryExponent(v) ==
    IF v >= 1000 THEN Log2(v \div 1000) ELSE 0 - DoublingsToOne(v)

\* v / 1000 is a power of two (v > 0).
IsPowerOfTwo(v) == v % 125 = 0 /\ \E k \in 1..31 : PowersOfTwo[k] = v \div 125

-----------------------------------------------------------------------------
(* Python floats *)

\* A Python float is the record [v, e, p]: the double (v + e * 2^p) / 1000,
\* where v is the value to the nearest thousandth and e * 2^p / 1000 is what
\* binary rounding has added. A double that is a whole number of
\* thousandths has e = 0 and p = 0; otherwise 2^p is the last bit of its
\* significand and e is a whole number of thousandths of that bit, so that
\* equal doubles are equal records.
Exact(v) == [v |-> v, e |-> 0, p |-> 0]

\* float("nan")
nan == [v |-> 0, e |-> 1, p |-> 1024]

IsNaN(X) == X.p = 1024

\* e units of 2^(p0 + d), counted in units of 2^p0.
Scale(e, d) == IF e = 0 THEN 0 ELSE e * Pow2(d)

\* The exponent of the last significand bit of the double that holds the
\* exact value V / 1000 plus an error of the sign of T, V # 0: one less when
\* the value lies just below a power of two.
LastBit(V, T) ==
    BinaryExponent(Abs(V)) - 52
        - (IF IsPowerOfTwo(Abs(V)) /\ T # 0 /\ ((T < 0) = (V > 0)) THEN 1
           ELSE 0)

Canonical(V, e, p) == IF e = 0 THEN Exact(V) ELSE [v |-> V, e |-> e, p |-> p]

\* Ties go to the even significand: c is the rounded error in units of
\* 2^pr and tie says that the exact value lay half-way.
RoundEven(V, pr, c, tie) ==
    Canonical(V,
              IF tie /\ ((V % 2000) * Pow2Mod(0 - pr, 2000) + c) % 2000 # 0
              THEN c - 1000 ELSE c,
              pr)

\* num / den is the exact error, shifted by a half, over one unit of 2^pr.
RoundNearest(V, pr, c0, num, den) ==
    RoundEven(V, pr, c0 + 1000 * (num \div den), num % den = 0)

\* c0 is the error of V alone in units of 2^pr; up / down is 2^(p0 - pr).
RoundFrom(V, num, den, pr, c0, up, down) ==
    RoundNearest(V, pr, c0, num * up + (500 - c0) * den * down,
                 1000 * den * down)

\* Rounding to the last significand bit 2^pr.
RoundAt(V, num, den, p0, pr) ==
    RoundFrom(V, num, den, pr,
              0 - (((V % 1000) * Pow2Mod(0 - pr, 1000)) % 1000),
              Pow2(Max(p0 - pr, 0)), Pow2(Max(pr - p0, 0)))

\* A double below half a thousandth: T * 2^p with T odd.
RECURSIVE Tiny(_, _)
Tiny(T, p) ==
    IF T % 2 = 0 THEN Tiny(T \div 2, p + 1) ELSE [v |-> 0, e |-> T, p |-> p]

\* The double nearest to the exact value (V + num * 2^p0) / 1000, ties to
\* the even significand: the rounding a float sum or product ends with.
\* For V = 0 the value is what the roundings of the operands have left,
\* and it is a double as it stands.
RoundToDouble(V, num, p0) ==
    IF V = 0 THEN (IF num = 0 THEN Exact(0) ELSE Tiny(num, p0))
    ELSE RoundAt(V, num, 1, p0, LastBit(V, num))

\* Double(x) is the float of the decimal x / 1000, as float(x) gives it
\* for a literal or a text: the nearest double (53-bit significand).
Double(x) ==
    IF x % 125 = 0 THEN Exact(x) ELSE RoundToDouble(x, 0, LastBit(x, 0))

\* The finer of the last bits of two floats, of which one is inexact.
CommonBit(X, Y) ==
    IF X.e = 0 THEN Y.p ELSE IF Y.e = 0 THEN X.p ELSE Min(X.p, Y.p)

\* The error of X in units of 2^p0.
ErrorAt(X, p0) == Scale(X.e, X.p - p0)

\* The exact sum of X and Y with errors in units of 2^p0, rounded.
DoubleAddAt(X, Y, p0) ==
    RoundToDouble(X.v + Y.v, ErrorAt(X, p0) + ErrorAt(Y, p0), p0)

\* Python x + y of two floats. Two whole numbers of eighths add exactly.
DoubleAdd(X, Y) ==
    IF X.e = 0 /\ Y.e = 0 THEN Exact(X.v + Y.v)
    ELSE IF IsNaN(X) \/ IsNaN(Y) THEN nan
    ELSE DoubleAddAt(X, Y, CommonBit(X, Y))

\* Python -x
DoubleNeg(X) == IF IsNaN(X) THEN nan ELSE [v |-> 0 - X.v, e |-> 0 - X.e, p |-> X.p]

\* X < Y for two floats of the same v that are not the same double.
ErrorLess(X, Y, p0) == ErrorAt(X, p0) < ErrorAt(Y, p0)

\* The comparisons of floats: each is false when an operand is NaN.
Lt(X, Y) ==
    /\ ~IsNaN(X) /\ ~IsNaN(Y)
    /\ \/ X.v < Y.v
       \/ X.v = Y.v /\ X # Y /\ ErrorLess(X, Y, CommonBit(X, Y))

Le(X, Y) ==
    /\ ~IsNaN(X) /\ ~IsNaN(Y)
    /\ \/ X.v < Y.v
       \/ X.v = Y.v /\ (X = Y \/ ErrorLess(X, Y, CommonBit(X, Y)))

Gt(X, Y) == Lt(Y, X)

Ge(X, Y) == Le(Y, X)

\* Python max(a, b) and min(a, b): the first argument unless the second is
\* strictly beyond it.
DoubleMax(a, b) == IF Lt(a, b) THEN b ELSE a

DoubleMin(a, b) == IF Lt(b, a) THEN b ELSE a

\* Python abs(x)
DoubleAbs(X) == IF Lt(X, Exact(0)) THEN DoubleNeg(X) ELSE X

\* Python n * x of an int n and a float x: the exact product, rounded.
DoubleMul(n, X) ==
    IF X.e = 0 THEN Exact(n * X.v)
    ELSE IF IsNaN(X) THEN nan
    ELSE RoundToDouble(n * X.v, n * X.e, X.p)

\* The floor of the exact quotient of the doubles X and B, q being the
\* quotient of the decimals and the errors compared in units of 2^p0.
DoubleFloorDivAt(X, B, q, p0) ==
    IF X.v % B.v # 0 THEN q
    ELSE IF ErrorAt(X, p0) >= q * ErrorAt(B, p0) THEN q
    ELSE q - 1

\* Python floor division X // B of two floats, for B > 0, as an integer:
\* the floor of the exact quotient of the two doubles. It differs from the
\* floor of the quotient of the decimals only when B.v divides X.v and the
\* rounding errors put the quotient just below the integer
\* (1.0 // 0.1 = 9.0).
DoubleFloorDiv(X, B) ==
    DoubleFloorDivAt(X, B, X.v \div B.v, CommonBit(X, B))

\* X // B for B # 0. For B = 0 Python raises ZeroDivisionError, which
\* snap_down and snap_up catch.
FloorDiv(X, B) ==
    IF B.v < 0 THEN DoubleFloorDiv(DoubleNeg(X), DoubleNeg(B))
    ELSE DoubleFloorDiv(X, B)

\* The operators of Python on floats.
X (+) Y == DoubleAdd(X, Y)

\* Python x - y
X (-) Y == DoubleAdd(X, DoubleNeg(Y))

X \prec Y == Lt(X, Y)

X \preceq Y == Le(X, Y)

X \succ Y == Lt(Y, X)

X \succeq Y == Le(Y, X)

\* (value // inc) * inc; except Exception: return 0
snap_down(value, inc) ==
    IF inc = Exact(0) THEN Exact(0)
    ELSE IF IsNaN(value) \/ IsNaN(inc) THEN nan
    ELSE DoubleMul(FloorDiv(value, inc), inc)

\* The literal 1 of snap_up is one inch.
SnapUpOne == 1000

\* ((value + inc - 1) // inc) * inc: the sum and the difference are each
\* rounded to a double before the division.
snap_up(value, inc) ==
    IF inc = Exact(0) THEN Exact(0)
    ELSE IF IsNaN(value) \/ IsNaN(inc) THEN nan
    ELSE DoubleMul(FloorDiv((value (+) inc) (-) Exact(SnapUpOne), inc), inc)

-----------------------------------------------------------------------------
(* Python strings: a string is the sequence of its characters *)

LowerOf ==
    ("A" :> "a") @@  ("B" :> "b") @@  ("C" :> "c") @@  ("D" :> "d") @@
    ("E" :> "e") @@  ("F" :> "f") @@  ("G" :> "g") @@  ("H" :> "h") @@
    ("I" :> "i") @@  ("J" :> "j") @@  ("K" :> "k") @@  ("L" :> "l") @@
    ("M" :> "m") @@  ("N" :> "n") @@  ("O" :> "o") @@  ("P" :> "p") @@
    ("Q" :> "q") @@  ("R" :> "r") @@  ("S" :> "s") @@  ("T" :> "t") @@
    ("U" :> "u") @@  ("V" :> "v") @@  ("W" :> "w") @@  ("X" :> "x") @@
    ("Y" :> "y") @@  ("Z" :> "z")

\* str.lower()
lower(s) ==
    [i \in 1..Len(s) |-> IF s[i] \in DOMAIN LowerOf THEN LowerOf[s[i]]
                         ELSE s[i]]

\* sub in s
Contains(s, sub) ==
    \E i \in 0..(Len(s) - Len(sub)) : SubSeq(s, i + 1, i + Len(sub)) = sub

\* String literals of the source.
door == <<"d", "o", "o", "r">>

storefront == <<"s", "t", "o", "r", "e", "f", "r", "o", "n", "t">>

curtain == <<"c", "u", "r", "t", "a", "i", "n">>

vertical == <<"v", "e", "r", "t", "i", "c", "a", "l">>

horizontal == <<"h", "o", "r", "i", "z", "o", "n", "t", "a", "l">>

Door == <<"D", "o", "o", "r">>

Window == <<"W", "i", "n", "d", "o", "w">>

StorefrontCurtain == <<"S", "t", "o", "r", "e", "f", "r", "o", "n", "t", "/", "C", "u", "r", "t", "a", "i", "n">>

\* Strings of the inputs that the source does not name.
Storefront == <<"S", "t", "o", "r", "e", "f", "r", "o", "n", "t">>

CurtainWall == <<"C", "u", "r", "t", "a", "i", "n", " ", "W", "a", "l", "l">>

diagonal == <<"d", "i", "a", "g", "o", "n", "a", "l">>

-----------------------------------------------------------------------------
(* Opening: clearance zone properties *)

\* max(0.0, self.x - self.clearances.jamb_min)
left_clearance_zone(o) == DoubleMax(Exact(0), o.x (-) o.clearances.jamb_min)

\* self.x + self.w + self.clearances.jamb_min
right_clearance_zone(o) == (o.x (+) o.w) (+) o.clearances.jamb_min

\* Variant: the sill clearance added on top of the header clearance.
top_clearance_zone_with_sill(o) ==
    ((o.y (+) o.h) (+) o.clearances.header_min) (+) o.clearances.sill_min

\* self.y + self.h + self.clearances.header_min
top_clearance_zone(o) == (o.y (+) o.h) (+) o.clearances.header_min

\* max(0.0, self.y - self.clearances.sill_min)
bottom_clearance_zone(o) ==
    DoubleMax(Exact(0), o.y (-) o.clearances.sill_min)

-----------------------------------------------------------------------------
(* Classification *)

\* Variant: a door is storefront-like too.
is_storefront_like_or_door(opening) ==
    LET otype == lower(opening.type)
    IN  \/ Contains(otype, storefront) \/ Contains(otype, curtain)
        \/ Contains(otype, door)

\* otype = (opening.type or "").lower()
\* return ("storefront" in otype) or ("curtain" in otype)
is_storefront_like(opening) ==
    LET otype == lower(opening.type)
    IN  Contains(otype, storefront) \/ Contains(otype, curtain)

\* float(getattr(constraints, "max_width", None) or
\*       getattr(constraints, "long_max", 0.0) or 0.0)
max_panel_w(c) == IF c.max_width # Exact(0) THEN c.max_width ELSE c.long_max

\* Variant: every storefront-like opening blocks, whatever its span.
is_blocking_storefront_always(opening, c) == is_storefront_like(opening)

is_blocking_storefront(opening, c) ==
    IF ~is_storefront_like(opening) THEN FALSE
    ELSE (right_clearance_zone(opening) (-) left_clearance_zone(opening))
             \succ max_panel_w(c)

SMALL_W == 72000

SMALL_H == 120000

\* Variant: non-storefront openings classified by their required span.
is_cutout_opening_by_span(opening, c) ==
    IF is_storefront_like(opening) THEN ~is_blocking_storefront(opening, c)
    ELSE (opening.w (+) DoubleMul(2, opening.clearances.jamb_min))
             \preceq c.max_width

is_cutout_opening(opening, c) ==
    IF is_storefront_like(opening) THEN ~is_blocking_storefront(opening, c)
    ELSE (opening.w \prec Double(SMALL_W) /\ opening.h \prec Double(SMALL_H))

-----------------------------------------------------------------------------
(* Sorting *)

\* sorted(xs, key=...) is stable: the element at index i moves to the
\* position given by the number of elements that precede it in key order
\* (smaller key, or equal key and smaller index). The keys are floats.
StableOrder(keys) ==
    LET n == Len(keys)
        rank(i) == Cardinality({j \in 1..n :
                       keys[j] \prec keys[i] \/ (keys[j] = keys[i] /\ j < i)}) + 1
    IN  [p \in 1..n |-> CHOOSE i \in 1..n : rank(i) = p]

SortOpeningsByX(ops) ==
    LET ord == StableOrder([i \in 1..Len(ops) |-> ops[i].x])
    IN  [p \in 1..Len(ops) |-> ops[ord[p]]]

SortByLeftZone(ops) ==
    LET ord == StableOrder([i \in 1..Len(ops) |-> left_clearance_zone(ops[i])])
    IN  [p \in 1..Len(ops) |-> ops[ord[p]]]

\* sorted(list(set(xs))) for a set of floats.
RECURSIVE SortedSeq(_)
SortedSeq(S) ==
    IF S = {} THEN <<>>
    ELSE LET m == CHOOSE a \in S : \A b \in S : a \preceq b
         IN  <<m>> \o SortedSeq(S \ {m})

-----------------------------------------------------------------------------
(* Panels *)

DigitChar == <<"0", "1", "2", "3", "4", "5", "6", "7", "8", "9">>

RECURSIVE DecDigits(_)
DecDigits(k) ==
    IF k < 10 THEN <<DigitChar[k + 1]>>
    ELSE DecDigits(k \div 10) \o <<DigitChar[(k % 10) + 1]>>

\* "P{}".format(k): the number without zero padding.
PanelName_unpadded(k) == <<"P">> \o DecDigits(k)

\* "P{:02d}".format(k), as the sequence of its characters.
PanelName(k) ==
    <<"P">> \o (IF k < 10 THEN <<"0">> ELSE <<>>) \o DecDigits(k)

\* The fields x, y, w, h are floats: float(x) of a float is x.
Panel(x, y, w, h, name, cutouts) ==
    [x |-> x, y |-> y, w |-> w, h |-> h, name |-> name, cutouts |-> cutouts]

panels_overlap(p1, p2) ==
    ~(((p1.x (+) p1.w) \preceq p2.x) \/ ((p2.x (+) p2.w) \preceq p1.x) \/
      ((p1.y (+) p1.h) \preceq p2.y) \/ ((p2.y (+) p2.h) \preceq p1.y))

is_valid_panel(w, h, c) ==
    IF w \prec c.min_width \/ h \prec c.min_height THEN FALSE
    ELSE IF w \succ c.long_max \/ h \succ c.long_max THEN FALSE
    ELSE IF w \succ c.short_max /\ h \succ c.short_max THEN FALSE
    ELSE TRUE

\* The clearance check of one opening against the panel's right and top
\* edges p_right and p_top.
ClearanceHit(panel, p_right, p_top, o) ==
    ~(p_right \preceq left_clearance_zone(o) \/
      panel.x \succeq right_clearance_zone(o) \/
      p_top \preceq bottom_clearance_zone(o) \/
      panel.y \succeq top_clearance_zone(o))

panel_overlaps_clearance(panel, ops, c, allow_intentional) ==
    \E i \in 1..Len(ops) :
        /\ ~allow_intentional
        /\ ~is_cutout_opening(ops[i], c)
        /\ ClearanceHit(panel, panel.x (+) panel.w, panel.y (+) panel.h,
                        ops[i])

\* The intersection of the panel, whose right and top edges are p_right
\* and p_top, with the clearance box of the opening o.
Intersection(panel, p_right, p_top, o) ==
    [inter_left |-> DoubleMax(panel.x, left_clearance_zone(o)),
     inter_right |-> DoubleMin(p_right, right_clearance_zone(o)),
     inter_bottom |-> DoubleMax(panel.y, bottom_clearance_zone(o)),
     inter_top |-> DoubleMin(p_top, top_clearance_zone(o))]

\* if inter_right > inter_left and inter_top > inter_bottom
Intersects(inter) ==
    inter.inter_right \succ inter.inter_left /\
    inter.inter_top \succ inter.inter_bottom

\* One cutout record: the intersection relative to the panel's origin.
CutoutInfo(panel, o, inter) ==
    [id |-> o.id, type |-> o.type,
     x_in |-> inter.inter_left (-) panel.x,
     y_in |-> inter.inter_bottom (-) panel.y,
     width_in |-> inter.inter_right (-) inter.inter_left,
     height_in |-> inter.inter_top (-) inter.inter_bottom]

\* The cutout records of the openings sel, each of which intersects the
\* panel.
CutoutRecords(panel, p_right, p_top, sel) ==
    [i \in 1..Len(sel) |->
        CutoutInfo(panel, sel[i],
                   Intersection(panel, p_right, p_top, sel[i]))]

\* The cutouts of a panel whose right and top edges are p_right and p_top.
CutoutsOf(panel, p_right, p_top, ops) ==
    CutoutRecords(panel, p_right, p_top,
                  SelectSeq(ops, LAMBDA o :
                      Intersects(Intersection(panel, p_right, p_top, o))))

calculate_panel_cutouts(panel, ops) ==
    CutoutsOf(panel, panel.x (+) panel.w, panel.y (+) panel.h, ops)

-----------------------------------------------------------------------------
(* calculate_segment_layout *)

SegmentSearchCap == 100

\* candidate_width = available_width / n_panels, for the float X and the
\* int n >= 1, is a float of one of three kinds.
\*  - n divides the thousandths of X, which are not 0: the quotient is that
\*    many thousandths, up to its rounding (RoundedQuotient).
\*  - n does not divide the thousandths of X: the quotient lies between two
\*    thousandths, further from every float M it is compared with and from
\*    every multiple of inc than its rounding can reach, and it is compared
\*    and snapped as the exact quotient.
\*  - X is 0 or a rounding residue (X.v = 0): so is the quotient, whose
\*    significand has 53 bits; it is compared and snapped as the exact
\*    quotient too, from which its rounding cannot part it.

\* The double nearest to (V + (e / n) * 2^p) / 1000, for V # 0.
RoundedQuotient(V, e, n, p) ==
    IF e = 0 THEN Double(V) ELSE RoundAt(V, e, n, p, LastBit(V, e))

\* X / n <= M and X / n < M for a residue X or X = 0, with X and M in
\* units of 2^p0.
ResidueQuotientLe(X, n, M, p0) ==
    IF M.v # 0 THEN M.v > 0 ELSE ErrorAt(X, p0) <= n * ErrorAt(M, p0)

ResidueQuotientLt(X, n, M, p0) ==
    IF M.v # 0 THEN M.v > 0 ELSE ErrorAt(X, p0) < n * ErrorAt(M, p0)

\* (X / n) // inc for a residue X or X = 0, as an integer, for inc # 0.
ResidueQuotientFloor(X, n, inc, p0) ==
    IF X.e = 0 THEN 0
    ELSE IF inc.v > 0 THEN (IF X.e > 0 THEN 0 ELSE 0 - 1)
    ELSE IF inc.v < 0 THEN (IF X.e > 0 THEN 0 - 1 ELSE 0)
    ELSE IF inc.e > 0 THEN ErrorAt(X, p0) \div (n * ErrorAt(inc, p0))
    ELSE (0 - ErrorAt(X, p0)) \div (n * (0 - ErrorAt(inc, p0)))

\* (X / n) // inc when n does not divide the thousandths of X, as an
\* integer, for inc of a thousandth or more.
BetweenQuotientFloor(X, n, inc) ==
    IF inc.v > 0 THEN X.v \div (n * inc.v)
    ELSE (0 - X.v) \div (n * (0 - inc.v))

\* candidate_width <= M
QuotientLe(X, n, M) ==
    IF IsNaN(X) \/ IsNaN(M) THEN FALSE
    ELSE IF X.v % n # 0 THEN X.v < n * M.v
    ELSE IF X.v # 0
    THEN RoundedQuotient(X.v \div n, X.e, n, X.p) \preceq M
    ELSE ResidueQuotientLe(X, n, M, CommonBit(X, M))

\* candidate_width < M
QuotientLt(X, n, M) ==
    IF IsNaN(X) \/ IsNaN(M) THEN FALSE
    ELSE IF X.v % n # 0 THEN X.v < n * M.v
    ELSE IF X.v # 0
    THEN RoundedQuotient(X.v \div n, X.e, n, X.p) \prec M
    ELSE ResidueQuotientLt(X, n, M, CommonBit(X, M))

\* snap_down(candidate_width, inc)
SnapDownQuotient(X, n, inc) ==
    IF inc = Exact(0) THEN Exact(0)
    ELSE IF IsNaN(X) \/ IsNaN(inc) THEN nan
    ELSE IF X.v % n # 0 THEN DoubleMul(BetweenQuotientFloor(X, n, inc), inc)
    ELSE IF X.v # 0
    THEN snap_down(RoundedQuotient(X.v \div n, X.e, n, X.p), inc)
    ELSE DoubleMul(ResidueQuotientFloor(X, n, inc, CommonBit(X, inc)), inc)

\* available_width = total_dist - total_spacing, with
\* total_spacing = (n_panels - 1) * spacing.
AvailableWidth(total_dist, n_panels, spacing) ==
    total_dist (-) DoubleMul(n_panels - 1, spacing)

\* What the while loop returns in the iteration it ends with, with
\* candidate_width = available_width / n_panels: the candidate fits or
\* the count has passed the cap.
SegmentCandidate(available_width, n_panels, max_w, min_w, inc) ==
    IF QuotientLe(available_width, n_panels, max_w)
    THEN IF QuotientLt(available_width, n_panels, min_w)
         THEN max_w
         ELSE SnapDownQuotient(available_width, n_panels, inc)
    ELSE max_w

\* The counts from n_panels up to the cap whose candidate width fits.
FittingFrom(total_dist, n_panels, max_w, spacing) ==
    {n \in n_panels..SegmentSearchCap :
        QuotientLe(AvailableWidth(total_dist, n, spacing), n, max_w)}

\* The iteration the while loop ends with: the first count that fits, or
\* the cap.
LastCount(fitting) ==
    IF fitting = {} THEN SegmentSearchCap
    ELSE CHOOSE n \in fitting : \A m \in fitting : n <= m

\* The while loop entered with n_panels: n_panels += 1 while the
\* candidate is too wide and the count is within the cap.
SegmentSearch(total_dist, n_panels, max_w, min_w, inc, spacing) ==
    SegmentCandidate(
        AvailableWidth(total_dist,
                       LastCount(FittingFrom(total_dist, n_panels, max_w,
                                             spacing)),
                       spacing),
        LastCount(FittingFrom(total_dist, n_panels, max_w, spacing)),
        max_w, min_w, inc)

\* Variant: the next panel is as wide as the limit allows, without the
\* search for equal widths.
SegmentLayoutFor_greedy(total_dist, max_w, min_w, inc, spacing) ==
    IF total_dist \prec min_w THEN total_dist
    ELSE snap_down(DoubleMin(total_dist, max_w), inc)

\* The function after total_dist = target_x - start_x.
SegmentLayoutFor(total_dist, max_w, min_w, inc, spacing) ==
    IF total_dist \prec min_w THEN total_dist
    ELSE IF total_dist \preceq max_w THEN snap_down(total_dist, inc)
    ELSE SegmentSearch(total_dist, 1, max_w, min_w, inc, spacing)

calculate_segment_layout(start_x, target_x, max_w, min_w, inc, spacing) ==
    SegmentLayoutFor(target_x (-) start_x, max_w, min_w, inc, spacing)

-----------------------------------------------------------------------------
(* fill_vertical_gap *)

\* The inner while loop over x_cursor of one row.  acc carries the panel
\* list, the panel counter and row_placed.
RECURSIVE FillRow(_, _, _, _, _, _, _, _)

\* The checks that end the row before the candidate is placed: width,
\* validity, overlap with a placed panel, clearance overlap (with
\* allow_intentional=True).
RowBlocked(candidate, acc, c, all_openings) ==
    \/ candidate.w \prec c.min_width
    \/ ~is_valid_panel(candidate.w, candidate.h, c)
    \/ \E i \in 1..Len(acc.panels) : panels_overlap(candidate, acc.panels[i])
    \/ panel_overlaps_clearance(candidate, all_openings, c, TRUE)

\* The candidate gets its cutouts and is appended.
RowPlaced(candidate, acc, all_openings) ==
    [panels |-> Append(acc.panels,
                    [candidate EXCEPT !.cutouts =
                        calculate_panel_cutouts(candidate, all_openings)]),
     panel_counter |-> acc.panel_counter + 1,
     row_placed |-> TRUE]

\* The candidate is placed and the cursor moves on, or the row ends.
PlaceInRow(candidate, panel_x_end, max_width, acc, c, all_openings) ==
    IF RowBlocked(candidate, acc, c, all_openings) THEN acc
    ELSE FillRow(candidate.x (+) (candidate.w (+) c.panel_spacing),
                 candidate.y, candidate.h, max_width, panel_x_end,
                 RowPlaced(candidate, acc, all_openings), c, all_openings)

\* Consume the remainder when the leftover would be too narrow for
\* another panel.
RowPanelWidth(remaining_width, panel_w, leftover, c) ==
    IF /\ leftover \succ Exact(0)
       /\ leftover \prec (c.min_width (+) c.panel_spacing)
    THEN snap_down(remaining_width, c.dimension_increment)
    ELSE panel_w

\* panel_w = snap_down(min(remaining_width, max_width), increment) and
\* leftover = remaining_width - panel_w.
RowWidthFrom(remaining_width, panel_w, c) ==
    RowPanelWidth(remaining_width, panel_w, remaining_width (-) panel_w, c)

\* One iteration with remaining_width = panel_x_end - x_cursor.
FillRowStep(xc, y_cursor, panel_h, max_width, panel_x_end, acc, c, all_openings, remaining_width) ==
    IF remaining_width \prec c.min_width THEN acc
    ELSE PlaceInRow(
             Panel(xc, y_cursor,
                   RowWidthFrom(remaining_width,
                                snap_down(DoubleMin(remaining_width,
                                                    max_width),
                                          c.dimension_increment),
                                c),
                   panel_h, PanelName(acc.panel_counter), <<>>),
             panel_x_end, max_width, acc, c, all_openings)

FillRow(xc, y_cursor, panel_h, max_width, panel_x_end, acc, c, all_openings) ==
    IF ~(xc \prec panel_x_end) THEN acc
    ELSE FillRowStep(xc, y_cursor, panel_h, max_width, panel_x_end, acc, c,
                     all_openings, panel_x_end (-) xc)

\* The outer while loop over y_cursor.
RECURSIVE FillRows(_, _, _, _, _, _, _)

\* if not row_placed: break; else y_cursor += panel_h + spacing.
AfterRow(y_cursor, panel_h, gap_y_end, panel_x_start, panel_x_end, row, c, all_openings) ==
    IF row.row_placed
    THEN FillRows(y_cursor (+) (panel_h (+) c.panel_spacing), gap_y_end,
                  panel_x_start, panel_x_end, row, c, all_openings)
    ELSE row

\* One row of height panel_h = snap_down(remaining_height, increment).
FillOneRow(y_cursor, panel_h, gap_y_end, panel_x_start, panel_x_end, acc, c, all_openings) ==
    IF panel_h \prec c.min_height THEN acc
    ELSE AfterRow(y_cursor, panel_h, gap_y_end, panel_x_start, panel_x_end,
                  FillRow(panel_x_start, y_cursor, panel_h,
                          IF panel_h \succ c.short_max THEN c.short_max
                          ELSE c.long_max,
                          panel_x_end, [acc EXCEPT !.row_placed = FALSE], c,
                          all_openings),
                  c, all_openings)

\* One iteration with remaining_height = gap_y_end - y_cursor.
FillRowsStep(y_cursor, gap_y_end, panel_x_start, panel_x_end, acc, c, all_openings, remaining_height) ==
    IF remaining_height \prec c.min_height THEN acc
    ELSE FillOneRow(y_cursor,
                    snap_down(remaining_height, c.dimension_increment),
                    gap_y_end, panel_x_start, panel_x_end, acc, c,
                    all_openings)

FillRows(y_cursor, gap_y_end, panel_x_start, panel_x_end, acc, c, all_openings) ==
    IF ~(y_cursor \prec gap_y_end) THEN acc
    ELSE FillRowsStep(y_cursor, gap_y_end, panel_x_start, panel_x_end, acc,
                      c, all_openings, gap_y_end (-) y_cursor)

\* Lines 601-607: the fill zone, inset by the spacing.
FillZone(region_x_start, region_x_end, opening_left, opening_right, c, is_storefront) ==
    LET spacing == c.panel_spacing
    IN  [panel_x_start |->
             IF is_storefront THEN region_x_start (+) spacing
             ELSE DoubleMax(opening_left (+) spacing, region_x_start),
         panel_x_end   |->
             IF is_storefront THEN region_x_end (-) spacing
             ELSE DoubleMin(opening_right (-) spacing, region_x_end)]

\* Lines 609-613: the fill goes on past the early return.
BandFillable(zone, gap_y_start, gap_y_end, c) ==
    LET gap_width  == zone.panel_x_end (-) zone.panel_x_start
        gap_height == gap_y_end (-) gap_y_start
    IN  ~(gap_width \prec c.min_width \/ gap_height \prec c.min_height)

\* The function after the fill zone has been computed.
FillInZone(zone, gap_y_start, gap_y_end, acc, c, all_openings) ==
    IF ~BandFillable(zone, gap_y_start, gap_y_end, c) THEN acc
    ELSE FillRows(gap_y_start, gap_y_end, zone.panel_x_start,
                  zone.panel_x_end, acc, c, all_openings)

\* acc is [panels, panel_counter, row_placed]; the result has the same shape.
fill_vertical_gap(region_x_start, region_x_end, gap_y_start, gap_y_end, opening_left, opening_right, acc, c, all_openings, is_storefront) ==
    FillInZone(FillZone(region_x_start, region_x_end, opening_left,
                        opening_right, c, is_storefront),
               gap_y_start, gap_y_end, acc, c, all_openings)

-----------------------------------------------------------------------------
(* adjust_panels_for_small_openings *)

AdjacentTol == 1000

\* ps is the whole panel list; idx lists (in list order) the indices of the
\* panels handed to the function, so that an update of a panel object is an
\* update of ps at its index.

\* The panels of sel in the order of their x (stable).
OrderedByX(ps, sel) ==
    LET ord == StableOrder([k \in 1..Len(sel) |-> ps[sel[k]].x])
    IN  [k \in 1..Len(sel) |-> sel[ord[k]]]

\* band_panels for one opening: the panels crossing the opening vertically,
\* sorted by x (stable).
BandPanels(ps, idx, opening) ==
    OrderedByX(ps, SelectSeq(idx, LAMBDA i :
        ~(((ps[i].y (+) ps[i].h) \preceq opening.y) \/
          (ps[i].y \succeq (opening.y (+) opening.h)))))

\* The body of the pair loop for the pair (band[k], band[k+1]): TRUE when
\* no `continue` is taken.
SeamQualifies(ps, band, k, opening, c, dim_inc) ==
    LET left  == ps[band[k]]
        right == ps[band[k + 1]]
        Fits(new_left_fab_w, new_right_fab_w) ==
            ~(new_left_fab_w \prec c.min_width \/
              new_right_fab_w \prec c.min_width)
        Moves(actual_seam, new_seam) ==
            /\ ~(new_seam \preceq left.x)
            /\ Fits(left.w (-) (actual_seam (-) new_seam),
                    (right.x (+) right.w) (-) new_seam)
        Inside(actual_seam) ==
            /\ ~(DoubleAbs(right.x (-) actual_seam) \succ Double(AdjacentTol))
            /\ opening.x \prec actual_seam
            /\ actual_seam \prec (opening.x (+) opening.w)
            /\ Moves(actual_seam, snap_down(opening.x, dim_inc))
    IN  Inside((left.x (+) left.w) (+) c.panel_spacing)

MoveSeam(ps, band, k, opening, c, dim_inc) ==
    LET li == band[k]
        rj == band[k + 1]
        Moved(actual_seam, new_seam) ==
            [i \in 1..Len(ps) |->
                IF i = li
                THEN [ps[i] EXCEPT
                         !.w = ps[li].w (-) (actual_seam (-) new_seam)]
                ELSE IF i = rj
                THEN [ps[i] EXCEPT
                         !.x = new_seam,
                         !.w = (ps[rj].x (+) ps[rj].w) (-) new_seam]
                ELSE ps[i]]
    IN  Moved((ps[li].x (+) ps[li].w) (+) c.panel_spacing,
              snap_down(opening.x, dim_inc))

\* The pair loop over the band panels of one opening.
AdjustBand(ps, band, opening, c, dim_inc) ==
    LET hits == {k \in 1..(Len(band) - 1) :
                    SeamQualifies(ps, band, k, opening, c, dim_inc)}
    IN  IF hits = {} THEN ps
        ELSE MoveSeam(ps, band,
                      CHOOSE k \in hits : \A m \in hits : k <= m,
                      opening, c, dim_inc)

\* One iteration of the loop over openings.
AdjustForOpening(ps, idx, opening, c, dim_inc) ==
    IF ~(opening.w \prec Double(SMALL_W) /\ opening.h \prec Double(SMALL_H))
    THEN ps
    ELSE AdjustBand(ps, BandPanels(ps, idx, opening), opening, c, dim_inc)

RECURSIVE AdjustFrom(_, _, _, _, _, _)
AdjustFrom(ps, idx, ops, j, c, dim_inc) ==
    IF j > Len(ops) THEN ps
    ELSE AdjustFrom(AdjustForOpening(ps, idx, ops[j], c, dim_inc),
                    idx, ops, j + 1, c, dim_inc)

adjust_panels_for_small_openings(ps, idx, ops, c, dim_inc) ==
    AdjustFrom(ps, idx, ops, 1, c, dim_inc)

-----------------------------------------------------------------------------
(* place_panels_sequential: region building *)

Region(x_start, x_end, y_end, ops) ==
    [x_start |-> x_start, x_end |-> x_end, y_start |-> Exact(0),
     y_end |-> y_end, openings |-> ops]

BlockingOf(sorted, c) ==
    SelectSeq(sorted, LAMBDA o : is_blocking_storefront(o, c))

RegularOf(sorted, c) ==
    SelectSeq(sorted, LAMBDA o : ~is_blocking_storefront(o, c))

XBoundaries(W, blocking) ==
    SortedSeq({Exact(0), W}
              \cup {left_clearance_zone(blocking[i]) : i \in 1..Len(blocking)}
              \cup {right_clearance_zone(blocking[i]) : i \in 1..Len(blocking)})

\* Variant: a segment that only touches a Blocker span counts as blocked.
SegmentBlocked_touching(x_start, x_end, blocking) ==
    \E i \in 1..Len(blocking) :
        ~(x_end \prec left_clearance_zone(blocking[i]) \/
          x_start \succ right_clearance_zone(blocking[i]))

SegmentBlocked(x_start, x_end, blocking) ==
    \E i \in 1..Len(blocking) :
        ~(x_end \preceq left_clearance_zone(blocking[i]) \/
          x_start \succeq right_clearance_zone(blocking[i]))

RegionOpenings(x_start, x_end, regular) ==
    SelectSeq(regular, LAMBDA o :
        ~(right_clearance_zone(o) \preceq x_start \/
          left_clearance_zone(o) \succeq x_end))

\* The regions of the segments of x_boundaries whose indices are in keep.
RegionsAt(xb, keep, H, regular) ==
    [k \in 1..Len(keep) |->
        Region(xb[keep[k]], xb[keep[k] + 1], H,
               RegionOpenings(xb[keep[k]], xb[keep[k] + 1], regular))]

\* The loop over the segments of x_boundaries.
RegionsBetween(xb, storefronts_sorted, H, regular, c) ==
    RegionsAt(xb,
              SelectSeq([i \in 1..(Len(xb) - 1) |-> i], LAMBDA i :
                  /\ ~((xb[i + 1] (-) xb[i]) \prec c.min_width)
                  /\ ~SegmentBlocked(xb[i], xb[i + 1], storefronts_sorted)),
              H, regular)

\* The else branch, with storefronts_sorted.
RegionsAround(W, H, storefronts_sorted, regular, c) ==
    RegionsBetween(XBoundaries(W, storefronts_sorted), storefronts_sorted, H,
                   regular, c)

BuildRegionList(W, H, blocking, regular, c) ==
    IF Len(blocking) = 0
    THEN <<Region(Exact(0), W, H, regular)>>
    ELSE RegionsAround(W, H, SortByLeftZone(blocking), regular, c)

RECURSIVE BandsFrom(_, _, _)

\* The body of the band loop for the band height bh.
BandOf(cy, bh, H, c) ==
    IF bh \succeq c.min_height
    THEN <<[y_start |-> cy, y_end |-> cy (+) bh]>>
             \o BandsFrom(cy (+) bh, H, c)
    ELSE <<>>

\* Horizontal mode: bands of height snap_down(min(rem_h, SHORT_MAX), inc).
BandsFrom(cy, H, c) ==
    IF ~(cy \prec H) THEN <<>>
    ELSE BandOf(cy, snap_down(DoubleMin(H (-) cy, c.short_max),
                              c.dimension_increment), H, c)

\* orientation = str(orientation or "vertical").lower()
\* horizontal_mode = (orientation == "horizontal")
horizontal_mode(orient) ==
    lower(IF orient = <<>> THEN vertical ELSE orient) = horizontal

BandsOf(region, H, c, orient) ==
    IF horizontal_mode(orient) THEN BandsFrom(Exact(0), H, c)
    ELSE <<[y_start |-> region.y_start, y_end |-> region.y_end]>>

-----------------------------------------------------------------------------
(* place_panels_sequential: the per-band cursor loop *)

FutureTol == 10

SeamTol == 100

HopTol == 1000

CurRegion == regions[ri]

CurBand == bands[bi]

band_height == CurBand.y_end (-) CurBand.y_start

max_width_for_band ==
    IF band_height \succ constraints.short_max THEN constraints.short_max
    ELSE constraints.long_max

\* Variant: the loop gives up while two minimum widths are still free.
LoopContinues_early ==
    /\ x_cursor \prec CurRegion.x_end
    /\ ~((CurRegion.x_end (-) x_cursor)
             \prec DoubleMul(2, constraints.min_width))

\* while x_cursor < region['x_end'], and the first break of the body.
LoopContinues ==
    /\ x_cursor \prec CurRegion.x_end
    /\ ~((CurRegion.x_end (-) x_cursor) \prec constraints.min_width)

future_openings ==
    SelectSeq(CurRegion.openings, LAMBDA o :
        /\ left_clearance_zone(o) \succ (x_cursor (+) Double(FutureTol))
        /\ ~(top_clearance_zone(o) \preceq CurBand.y_start \/
             bottom_clearance_zone(o) \succeq CurBand.y_end)
        /\ ~is_cutout_opening(o, constraints))

HasNextOpening == Len(future_openings) > 0

\* min(f, key=left_clearance_zone): the first minimal element.
FirstLeftmost(f) ==
    f[CHOOSE i \in 1..Len(f) : \A j \in 1..Len(f) :
          \/ left_clearance_zone(f[i]) \prec left_clearance_zone(f[j])
          \/ (left_clearance_zone(f[i]) = left_clearance_zone(f[j]) /\ i <= j)]

next_opening == FirstLeftmost(future_openings)

bridge_dist == right_clearance_zone(next_opening) (-) x_cursor

\* can_bridge for a bridge_dist.
Bridgeable(dist) ==
    dist \preceq max_width_for_band /\ dist \succeq constraints.min_width

can_bridge == HasNextOpening /\ Bridgeable(bridge_dist)

target_is_opening == HasNextOpening /\ ~can_bridge

hard_stop_x ==
    IF target_is_opening THEN left_clearance_zone(next_opening)
    ELSE CurRegion.x_end

dist_to_stop == hard_stop_x (-) x_cursor

\* The openings whose clearance span strictly contains candidate_right.
SeamHits(ops, candidate_right) ==
    {i \in 1..Len(ops) :
        /\ (left_clearance_zone(ops[i]) (+) Double(SeamTol)) \prec candidate_right
        /\ candidate_right \prec (right_clearance_zone(ops[i]) (-) Double(SeamTol))}

\* The corrected width for the opening op whose span holds the seam.
SeamFix(op) ==
    LET Clear(width_to_clear) ==
            IF width_to_clear \preceq max_width_for_band
            THEN width_to_clear
            ELSE snap_down(max_width_for_band, constraints.dimension_increment)
        Fix(dist_to_left_jamb) ==
            IF dist_to_left_jamb \succeq constraints.min_width
            THEN snap_down(dist_to_left_jamb, constraints.dimension_increment)
            ELSE Clear(snap_up(right_clearance_zone(op) (-) x_cursor,
                               constraints.dimension_increment))
    IN  Fix(left_clearance_zone(op) (-) x_cursor)

\* The loop over region_openings, which ends at the first hit.
SeamValidatedAt(panel_w, ops, hits) ==
    IF hits = {} THEN panel_w
    ELSE SeamFix(ops[CHOOSE i \in hits : \A j \in hits : i <= j])

\* Step 3 of the loop body: the first region opening whose clearance span
\* strictly contains the candidate right edge corrects the width.
SeamValidated(panel_w) ==
    SeamValidatedAt(panel_w, CurRegion.openings,
                    SeamHits(CurRegion.openings, x_cursor (+) panel_w))

\* The width of the panel of a non-bridging iteration.
computed_panel_w ==
    SeamValidated(calculate_segment_layout(x_cursor, hard_stop_x,
                      max_width_for_band, constraints.min_width,
                      constraints.dimension_increment, constraints.panel_spacing))

\* The candidate with its cutouts.
WithCutouts(bare, ops) ==
    [bare EXCEPT !.cutouts = calculate_panel_cutouts(bare, ops)]

NewPanel(panel_w) ==
    WithCutouts(Panel(x_cursor, CurBand.y_start, panel_w, band_height,
                      PanelName(panel_counter), <<>>),
                CurRegion.openings)

\* Variant: a step overwrites the jamb clearance of every opening with a
\* working clearance equal to panel_spacing.
Frame_working_clearance ==
    /\ UNCHANGED <<wall_width, wall_height, constraints, orientation, caller,
                   layout_call>>
    /\ openings' = [k \in 1..Len(openings) |->
                       [openings[k] EXCEPT
                            !.clearances.jamb_min = constraints.panel_spacing]]

Frame == UNCHANGED <<wall_width, wall_height, openings, constraints, orientation, caller, layout_call>>

FrameClassified ==
    UNCHANGED <<sorted_openings, blocking_storefronts, regular_openings, regions>>

\* Bound on the length of the panel list while the cursor loop bridges
\* with a step of less than half a thousandth (a bridge panel of width 0
\* and a spacing of 2^-60): the cursor then stays where it is, or leaves 0
\* by 2^-60 per iteration and comes to rest at 2^-7 after 2^53 of them, and
\* every iteration appends one more panel, without end.
MaxPanels == 20

\* can_bridge: place one panel from the cursor to the opening's right
\* clearance edge and continue.
Bridge ==
    LET Advance(step) ==
            /\ step.v = 0 => Len(panels) < MaxPanels
            /\ x_cursor' = x_cursor (+) step
        Place(panel_w) ==
            /\ panels' = Append(panels, NewPanel(panel_w))
            /\ Advance(panel_w (+) constraints.panel_spacing)
    IN  /\ pc = "place"
        /\ LoopContinues
        /\ can_bridge
        /\ Place(snap_down(bridge_dist, constraints.dimension_increment))
        /\ panel_counter' = panel_counter + 1
        /\ last' = "bridge"
        /\ Frame /\ FrameClassified
        /\ UNCHANGED <<pc, ri, bands, bi, gap_openings>>

\* dist_to_stop < PANEL_WIDTH_MIN in front of an opening: jump over it.
Jump ==
    /\ pc = "place"
    /\ LoopContinues
    /\ target_is_opening
    /\ dist_to_stop \prec constraints.min_width
    /\ x_cursor' = right_clearance_zone(next_opening)
    /\ last' = "jump"
    /\ Frame /\ FrameClassified
    /\ UNCHANGED <<pc, ri, bands, bi, gap_openings, panels, panel_counter>>

\* A valid computed panel is recorded; the cursor advances and, when the
\* stop was an opening that has been reached, hops to its right edge.
PlacePanel ==
    LET Land(advanced, hop) ==
            /\ x_cursor' = IF hop THEN right_clearance_zone(next_opening)
                           ELSE advanced
            /\ last' = IF hop THEN "hop" ELSE "place"
        Advance(advanced) ==
            Land(advanced,
                 /\ target_is_opening
                 /\ DoubleAbs(advanced (-)
                              (hard_stop_x (+) constraints.panel_spacing))
                        \prec Double(HopTol))
        Place(panel_w) ==
            /\ is_valid_panel(panel_w, band_height, constraints)
            /\ panels' = Append(panels, NewPanel(panel_w))
            /\ Advance(x_cursor (+) (panel_w (+) constraints.panel_spacing))
    IN  /\ pc = "place"
        /\ LoopContinues
        /\ ~can_bridge
        /\ ~(dist_to_stop \prec constraints.min_width)
        /\ Place(computed_panel_w)
        /\ panel_counter' = panel_counter + 1
        /\ Frame /\ FrameClassified
        /\ UNCHANGED <<pc, ri, bands, bi, gap_openings>>

\* The loop ends (its condition fails or a break is taken): go to the next
\* band, or to the gap fill of the region after the last band.
EndBand ==
    LET Breaks(short) ==
            \/ short /\ ~target_is_opening
            \/ ~short /\ ~is_valid_panel(computed_panel_w, band_height,
                                         constraints)
    IN  /\ pc = "place"
        /\ \/ ~LoopContinues
           \/ ~can_bridge /\ Breaks(dist_to_stop \prec constraints.min_width)
        /\ IF bi < Len(bands)
           THEN /\ bi' = bi + 1
                /\ x_cursor' = DoubleMax(Exact(0), CurRegion.x_start)
                /\ pc' = "place"
           ELSE /\ pc' = "gapfill"
                /\ UNCHANGED <<bi, x_cursor>>
        /\ last' = "end_band"
        /\ Frame /\ FrameClassified
        /\ UNCHANGED <<ri, bands, gap_openings, panels, panel_counter>>

-----------------------------------------------------------------------------
(* place_panels_sequential: phases 2 and 3 and the global fill *)

\* Variant: the gaps are filled around the Cutout-classified openings.
GapOpeningsOf_cutouts(region, c) ==
    SelectSeq(region.openings, LAMBDA o : is_cutout_opening(o, c))

GapOpeningsOf(region, c) ==
    SelectSeq(region.openings, LAMBDA o : ~is_cutout_opening(o, c))

\* Gap BELOW opening; gap_height = bottom_clearance_zone - 0.
GapFillBelow(acc, region, opening, c, all_openings) ==
    IF /\ bottom_clearance_zone(opening) \succ Exact(0)
       /\ bottom_clearance_zone(opening) \succeq c.min_height
    THEN fill_vertical_gap(region.x_start, region.x_end,
             Exact(0), bottom_clearance_zone(opening),
             left_clearance_zone(opening), right_clearance_zone(opening),
             acc, c, all_openings, FALSE)
    ELSE acc

\* Gap ABOVE opening.
GapFillAbove(acc, region, opening, H, c, all_openings) ==
    IF /\ top_clearance_zone(opening) \prec H
       /\ (H (-) top_clearance_zone(opening)) \succeq c.min_height
    THEN fill_vertical_gap(region.x_start, region.x_end,
             top_clearance_zone(opening), H,
             left_clearance_zone(opening), right_clearance_zone(opening),
             acc, c, all_openings, is_storefront_like(opening))
    ELSE acc

\* The body of the phase 2 loop for one opening.
GapFillForOpening(acc, region, opening, H, c, all_openings) ==
    IF /\ ~is_storefront_like(opening)
       /\ bottom_clearance_zone(opening) \preceq Exact(0)
       /\ top_clearance_zone(opening) \succeq H
    THEN acc
    ELSE GapFillAbove(GapFillBelow(acc, region, opening, c, all_openings),
                      region, opening, H, c, all_openings)

RECURSIVE GapFillFrom(_, _, _, _, _, _, _)
GapFillFrom(acc, region, gaps, j, H, c, all_openings) ==
    IF j > Len(gaps) THEN acc
    ELSE GapFillFrom(GapFillForOpening(acc, region, gaps[j], H, c, all_openings),
                     region, gaps, j + 1, H, c, all_openings)

\* The body of the final loop over blocking_storefronts.
GlobalFillFor(acc, sf, H, c, all_openings) ==
    IF /\ top_clearance_zone(sf) \prec H
       /\ (H (-) top_clearance_zone(sf)) \succeq c.min_height
    THEN fill_vertical_gap(left_clearance_zone(sf), right_clearance_zone(sf),
             top_clearance_zone(sf), H,
             left_clearance_zone(sf), right_clearance_zone(sf),
             acc, c, all_openings, TRUE)
    ELSE acc

RECURSIVE GlobalFillFrom(_, _, _, _, _, _)
GlobalFillFrom(acc, blocking, j, H, c, all_openings) ==
    IF j > Len(blocking) THEN acc
    ELSE GlobalFillFrom(GlobalFillFor(acc, blocking[j], H, c, all_openings),
                        blocking, j + 1, H, c, all_openings)

\* region_panels = [p for p in panels if x_start <= p.x < x_end], as indices.
RegionPanelIdx(ps, region) ==
    SelectSeq([i \in 1..Len(ps) |-> i], LAMBDA i :
        region.x_start \preceq ps[i].x /\ ps[i].x \prec region.x_end)

-----------------------------------------------------------------------------
(* Actions of place_panels_sequential outside the cursor loop *)

\* Lines 751-796: sort, split blocking / regular, build the regions.
BuildRegions ==
    /\ pc = "start"
    /\ LET sorted == SortOpeningsByX(openings)
       IN  /\ sorted_openings' = sorted
           /\ blocking_storefronts' = BlockingOf(sorted, constraints)
           /\ regular_openings' = RegularOf(sorted, constraints)
           /\ regions' = BuildRegionList(wall_width, wall_height,
                             BlockingOf(sorted, constraints),
                             RegularOf(sorted, constraints), constraints)
    /\ panels' = <<>>
    /\ panel_counter' = 1
    /\ ri' = 1
    /\ pc' = IF Len(regions') = 0 THEN "global" ELSE "region"
    /\ last' = "regions"
    /\ Frame
    /\ UNCHANGED <<bands, bi, x_cursor, gap_openings>>

\* Lines 801-823: bands of the region, cursor at the start of the first band.
BeginRegion ==
    /\ pc = "region"
    /\ bands' = BandsOf(CurRegion, wall_height, constraints, orientation)
    /\ bi' = 1
    /\ x_cursor' = DoubleMax(Exact(0), CurRegion.x_start)
    /\ pc' = IF Len(bands') = 0 THEN "gapfill" ELSE "place"
    /\ last' = "bands"
    /\ Frame /\ FrameClassified
    /\ UNCHANGED <<ri, gap_openings, panels, panel_counter>>

\* The panel list and the counter after a run of fill_vertical_gap calls.
FillResult(res) ==
    /\ panels' = res.panels
    /\ panel_counter' = res.panel_counter

\* Lines 930-974: phase 2, gap fill around the non-cutout openings.
GapFillRegion ==
    /\ pc = "gapfill"
    /\ gap_openings' = GapOpeningsOf(CurRegion, constraints)
    /\ FillResult(GapFillFrom([panels |-> panels,
                                panel_counter |-> panel_counter,
                                row_placed |-> FALSE],
                               CurRegion, gap_openings', 1, wall_height,
                               constraints, sorted_openings))
    /\ pc' = "adjust"
    /\ last' = "gapfill"
    /\ Frame /\ FrameClassified
    /\ UNCHANGED <<ri, bands, bi, x_cursor>>

\* Lines 979-980: phase 3, seam adjustment on the region's panels; then the
\* next region, or the global fill after the last one.
AdjustSeams ==
    /\ pc = "adjust"
    /\ panels' = adjust_panels_for_small_openings(panels,
                     RegionPanelIdx(panels, CurRegion), CurRegion.openings,
                     constraints, constraints.dimension_increment)
    /\ IF ri < Len(regions)
       THEN ri' = ri + 1 /\ pc' = "region"
       ELSE ri' = ri /\ pc' = "global"
    /\ last' = "adjust"
    /\ Frame /\ FrameClassified
    /\ UNCHANGED <<bands, bi, x_cursor, gap_openings, panel_counter>>

\* Lines 985-1004: fill above the blocking storefronts, then return.
GlobalFill ==
    /\ pc = "global"
    /\ FillResult(GlobalFillFrom([panels |-> panels,
                                   panel_counter |-> panel_counter,
                                   row_placed |-> FALSE],
                                  blocking_storefronts, 1, wall_height,
                                  constraints, sorted_openings))
    /\ pc' = "done"
    /\ last' = "global"
    /\ Frame /\ FrameClassified
    /\ UNCHANGED <<ri, bands, bi, x_cursor, gap_openings>>

\* The caller (process_wall, line 1067) calls place_panels_sequential again
\* with the same wall, opening objects and constraints; the locals of the
\* call that returned are gone.
CallAgain ==
    /\ pc = "done"
    /\ pc' = "start"
    /\ sorted_openings' = <<>>
    /\ blocking_storefronts' = <<>>
    /\ regular_openings' = <<>>
    /\ regions' = <<>>
    /\ ri' = 0
    /\ bands' = <<>>
    /\ bi' = 0
    /\ x_cursor' = Exact(0)
    /\ gap_openings' = <<>>
    /\ panels' = <<>>
    /\ panel_counter' = 0
    /\ last' = "again"
    /\ Frame

-----------------------------------------------------------------------------
(* Configuration presets and the inputs of a run *)

\* The arguments are the decimal literals of the source, in thousandths.
OpeningClearances(jamb_min, header_min, sill_min) ==
    [jamb_min |-> Double(jamb_min), header_min |-> Double(header_min),
     sill_min |-> Double(sill_min)]

PanelConstraints(min_width, max_width, min_height, max_height, short_max, long_max, dimension_increment, panel_spacing) ==
    [min_width |-> Double(min_width), max_width |-> Double(max_width),
     min_height |-> Double(min_height), max_height |-> Double(max_height),
     short_max |-> Double(short_max), long_max |-> Double(long_max),
     dimension_increment |-> Double(dimension_increment),
     panel_spacing |-> Double(panel_spacing)]

\* get_preset_configs()["vertical"]
VerticalPreset ==
    [panel_constraints |-> PanelConstraints(24000, 138000, 24000, 348000,
                                            138000, 348000, 1000, 125),
     door_clearances |-> OpeningClearances(6000, 8000, 6000),
     window_clearances |-> OpeningClearances(4000, 6000, 4000),
     storefront_clearances |-> OpeningClearances(750, 750, 750),
     panel_orientation |-> vertical]

\* get_preset_configs()["horizontal"]
HorizontalPreset ==
    [panel_constraints |-> PanelConstraints(12000, 348000, 12000, 138000,
                                            138000, 348000, 1000, 125),
     door_clearances |-> OpeningClearances(6000, 8000, 6000),
     window_clearances |-> OpeningClearances(6000, 8000, 6000),
     storefront_clearances |-> OpeningClearances(750, 750, 750),
     panel_orientation |-> horizontal]

Presets == {VerticalPreset, HorizontalPreset}

\* The float 2.0 ** -60 (about 8.7e-19): 125 * 2^-57 thousandths.
TinySpacing == [v |-> 0, e |-> 125, p |-> 0 - 57]

\* A project configuration with 10 ft modules and the positive
\* panel_spacing 2.0 ** -60 in. A cursor of 2^-6 in or more does not move
\* when this spacing is added to it.
CoarseConfig ==
    [panel_constraints |->
         [PanelConstraints(24000, 138000, 24000, 348000, 138000, 348000,
                           120000, 0)
              EXCEPT !.panel_spacing = TinySpacing],
     door_clearances |-> OpeningClearances(6000, 8000, 6000),
     window_clearances |-> OpeningClearances(4000, 6000, 4000),
     storefront_clearances |-> OpeningClearances(750, 750, 750),
     panel_orientation |-> vertical]

\* process_wall, line 1065: the orientation handed to
\* place_panels_sequential.
PanelOrientation(cfg) ==
    lower(IF cfg.panel_orientation = <<>> THEN vertical
          ELSE cfg.panel_orientation)

\* get_wall_openings: the clearances of an opening follow its type.
ClearancesFor(type, door_clearances, window_clearances, storefront_clearances) ==
    LET otype_lower == lower(type)
    IN  IF Contains(otype_lower, door) THEN door_clearances
        ELSE IF \/ Contains(otype_lower, storefront)
                \/ Contains(otype_lower, curtain)
        THEN storefront_clearances
        ELSE window_clearances

\* get_wall_openings: an opening that takes the storefront clearances is
\* given the type "Storefront/Curtain".
OpeningTypeFor(type) ==
    LET otype_lower == lower(type)
    IN  IF Contains(otype_lower, door) THEN type
        ELSE IF \/ Contains(otype_lower, storefront)
                \/ Contains(otype_lower, curtain)
        THEN StorefrontCurtain
        ELSE type

Opening(oid, otype, x, y, w, h, clearances) ==
    [id |-> oid, type |-> otype, x |-> x, y |-> y, w |-> w, h |-> h,
     clearances |-> clearances]

\* Bound on the number of openings of the wall.
MaxOpenings == 2

\* The walls and openings the runs are drawn from (thousandths of an inch).
WallWidths == {240000, 480000, 1440000}

WallHeights == {108000, 150000, 360000}

OpeningRow(type, x, y, w, h) ==
    [type |-> type, x |-> x, y |-> y, w |-> w, h |-> h]

DoorB == OpeningRow(Door, 100000, 0, 36000, 84000)

DoorEdge == OpeningRow(Door, 0, 0, 36000, 84000)

DoorWide == OpeningRow(Door, 16000, 0, 80000, 84000)

StorefrontC == OpeningRow(StorefrontCurtain, 36000, 0, 200000, 84000)

StorefrontSmall == OpeningRow(StorefrontCurtain, 150000, 0, 60000, 84000)

StorefrontFar == OpeningRow(StorefrontCurtain, 280000, 0, 150000, 84000)

WindowWide == OpeningRow(Window, 28000, 36000, 150000, 84000)

WindowSmall == OpeningRow(Window, 178000, 0, 36000, 48000)

WindowNear == OpeningRow(Window, 20000, 36000, 150000, 84000)

DoorFar == OpeningRow(Door, 200000, 0, 80000, 84000)

WindowFar == OpeningRow(Window, 366000, 36000, 80000, 48000)

DoorByStorefront == OpeningRow(Door, 212000, 0, 80000, 84000)

StorefrontAbove == OpeningRow(StorefrontCurtain, 36000, 100000, 200000, 40000)

\* A storefront whose clearance span is 138 in decimals and just above 138
\* in floats.
StorefrontTight == OpeningRow(StorefrontCurtain, 123600, 0, 136500, 84000)

\* A window narrower than 72 in and 120 in tall.
WindowTall == OpeningRow(Window, 300000, 12000, 36000, 120000)

OpeningRows == {DoorB, DoorEdge, DoorWide, StorefrontC, StorefrontSmall,
                StorefrontFar, WindowWide, WindowSmall, WindowNear, DoorFar,
                WindowFar, DoorByStorefront, StorefrontAbove,
                StorefrontTight, WindowTall}

\* Rows describe distinct physical openings: their rectangles do not
\* overlap, and they lie on the wall.
RowsDisjoint(a, b) ==
    \/ a.x + a.w <= b.x \/ b.x + b.w <= a.x
    \/ a.y + a.h <= b.y \/ b.y + b.h <= a.y

RowsOnWall(rows, W, H) ==
    /\ \A i \in 1..Len(rows) :
           rows[i].x + rows[i].w <= W /\ rows[i].y + rows[i].h <= H
    /\ \A i, j \in 1..Len(rows) : i < j => RowsDisjoint(rows[i], rows[j])

\* The openings argument of a call of place_panels_sequential: an Opening
\* object for each row of the catalogue, with the row's type and
\* rectangle, its position in the list as id and the clearances that the
\* configuration cfg holds for the type.
OpeningsFromRows(rows, cfg) ==
    [i \in 1..Len(rows) |->
        Opening(DecDigits(i), rows[i].type,
                Double(rows[i].x), Double(rows[i].y), Double(rows[i].w),
                Double(rows[i].h),
                ClearancesFor(rows[i].type, cfg.door_clearances,
                              cfg.window_clearances,
                              cfg.storefront_clearances))]

InitFrom(cfgs) ==
    /\ \E cfg \in cfgs, W \in WallWidths, H \in WallHeights,
          n \in 0..MaxOpenings :
          \E rows \in [1..n -> OpeningRows] :
              /\ RowsOnWall(rows, W, H)
              /\ wall_width = Double(W)
              /\ wall_height = Double(H)
              /\ openings = OpeningsFromRows(rows, cfg)
              /\ constraints = cfg.panel_constraints
              /\ orientation = cfg.panel_orientation
    /\ pc = "start"
    /\ sorted_openings = <<>>
    /\ blocking_storefronts = <<>>
    /\ regular_openings = <<>>
    /\ regions = <<>>
    /\ ri = 0
    /\ bands = <<>>
    /\ bi = 0
    /\ x_cursor = Exact(0)
    /\ gap_openings = <<>>
    /\ panels = <<>>
    /\ panel_counter = 0
    /\ last = "init"
    /\ walls_rows = <<>>
    /\ openings_rows = <<>>
    /\ wi = 0
    /\ all_panel_records = <<>>
    /\ layout_call = <<>>
    /\ ACTIVE_CONFIG = None
    /\ call = NoCall

Init == InitFrom(Presets)

InitCoarse == InitFrom({CoarseConfig})

Next ==
    \/ BuildRegions
    \/ BeginRegion
    \/ Bridge
    \/ Jump
    \/ PlacePanel
    \/ EndBand
    \/ GapFillRegion
    \/ AdjustSeams
    \/ GlobalFill
    \/ CallAgain

Spec == Init /\ [][Next]_vars

SpecCoarse == InitCoarse /\ [][Next]_vars

-----------------------------------------------------------------------------
(* Walls with a row of openings side by side *)

GangedDoorWide == OpeningRow(Door, 8000, 0, 80000, 100000)

GangedStorefrontSmall == OpeningRow(StorefrontCurtain, 90000, 0, 36000, 48000)

GangedStorefrontWide == OpeningRow(StorefrontCurtain, 126000, 0, 100000, 48000)

GangedWindowWide == OpeningRow(Window, 20000, 0, 150000, 48000)

GangedWindowSmall == OpeningRow(Window, 170000, 20000, 71000, 48000)

GangedDoorRight == OpeningRow(Door, 243000, 0, 60000, 48000)

GangedDoorLeft == OpeningRow(Door, 30000, 0, 60000, 84000)

GangedStorefrontMid == OpeningRow(StorefrontCurtain, 90000, 0, 71000, 84000)

GangedDoorEnd == OpeningRow(Door, 161000, 0, 71000, 84000)

\* Openings that touch the right edge, and the top edge, of a 240 in by
\* 108 in wall.
DoorAtEnd == OpeningRow(Door, 160000, 0, 80000, 84000)

WindowInCorner == OpeningRow(Window, 160000, 60000, 80000, 48000)

StorefrontAtEnd == OpeningRow(StorefrontCurtain, 180000, 0, 60000, 84000)

\* Openings whose type is spelled otherwise: a storefront door takes the
\* clearances of a door and keeps its type, a curtain wall in lower case
\* those of a storefront.
StorefrontDoor ==
    OpeningRow(<<"S", "t", "o", "r", "e", "f", "r", "o", "n", "t", " ", "D", "o", "o", "r">>,
               36000, 0, 200000, 84000)

CurtainWallLower ==
    OpeningRow(<<"c", "u", "r", "t", "a", "i", "n", " ", "w", "a", "l", "l">>,
               180000, 0, 60000, 84000)

\* The opening lists of the walls: three openings side by side, lists
\* with a single wide opening, lists with an opening at the far edge and
\* lists with an opening of another spelling.
OpeningRowLists ==
    {<<GangedDoorWide, GangedStorefrontSmall, GangedStorefrontWide>>,
     <<GangedWindowWide, GangedWindowSmall, GangedDoorRight>>,
     <<GangedDoorLeft, GangedStorefrontMid, GangedDoorEnd>>,
     <<GangedStorefrontSmall, GangedDoorEnd>>,
     <<WindowNear>>, <<StorefrontC>>, <<DoorFar>>,
     <<DoorAtEnd>>, <<WindowInCorner>>, <<StorefrontAtEnd>>,
     <<StorefrontDoor>>, <<CurtainWallLower>>}

\* The orientation argument as the preset spells it, or capitalised.
Capitalised(s) ==
    [i \in 1..Len(s) |->
        IF i = 1 /\ \E u \in DOMAIN LowerOf : LowerOf[u] = s[1]
        THEN CHOOSE u \in DOMAIN LowerOf : LowerOf[u] = s[1]
        ELSE s[i]]

InitGanged ==
    /\ \E cfg \in Presets, W \in WallWidths, H \in WallHeights,
          rows \in OpeningRowLists :
              /\ RowsOnWall(rows, W, H)
              /\ wall_width = Double(W)
              /\ wall_height = Double(H)
              /\ openings = OpeningsFromRows(rows, cfg)
              /\ constraints = cfg.panel_constraints
              /\ orientation \in {cfg.panel_orientation,
                                  Capitalised(cfg.panel_orientation)}
    /\ pc = "start"
    /\ sorted_openings = <<>>
    /\ blocking_storefronts = <<>>
    /\ regular_openings = <<>>
    /\ regions = <<>>
    /\ ri = 0
    /\ bands = <<>>
    /\ bi = 0
    /\ x_cursor = Exact(0)
    /\ gap_openings = <<>>
    /\ panels = <<>>
    /\ panel_counter = 0
    /\ last = "init"
    /\ walls_rows = <<>>
    /\ openings_rows = <<>>
    /\ wi = 0
    /\ all_panel_records = <<>>
    /\ layout_call = <<>>
    /\ ACTIVE_CONFIG = None
    /\ call = NoCall

SpecGanged == InitGanged /\ [][Next]_vars

-----------------------------------------------------------------------------
(* process_all_walls: CSV rows *)

\* A CSV cell is empty or absent, text that float() rejects, or a number.
\* Lengths of the CSV are in thousandths of a foot and ids in thousandths.
\* The same records stand for the strings get_wall_id returns: Num(v) is
\* the decimal text of v / 1000, Text a text that is no number.
Missing == [kind |-> "missing"]

Text == [kind |-> "text"]

Num(v) == [kind |-> "num", v |-> v]

\* float(v) of the decimal text of a number cell.
safe_float(cell, default) ==
    IF cell.kind = "num" THEN Double(cell.v) ELSE default

\* float(ft * 12): feet to inches.
FeetToInches(ft) == DoubleMul(12, ft)

\* A wall row with the column WallId as its only id column.
WallRow(id, length, height) ==
    [WallId |-> id, ElementId |-> Missing, Id |-> Missing, Name |-> Missing,
     Length |-> length, UnconnectedHeight |-> height]

CsvRow(oid, host, otype, width, height, sill, left, pos) ==
    [OpeningId |-> oid, HostWallId |-> host, OpeningType |-> otype,
     Width |-> width, Height |-> height, SillHeight |-> sill,
     LeftEdgeAlongWall |-> left, PositionAlongWall |-> pos]

\* int(float(val)): the integer part, toward zero.
IntOf(v) ==
    IF v >= 0 THEN (v \div 1000) * 1000 ELSE 0 - (((0 - v) \div 1000) * 1000)

\* The string "unknown".
unknown == [kind |-> "unknown"]

\* The first of the columns WallId, ElementId, Id that is not empty gives
\* str(int(float(val))), or str(val) when that fails; without one the
\* column Name gives str(val), and without a name the id is "unknown".
get_wall_id(wall_row) ==
    LET IdOf(val) == IF val.kind = "num" THEN Num(IntOf(val.v)) ELSE val
    IN  IF wall_row.WallId.kind # "missing" THEN IdOf(wall_row.WallId)
        ELSE IF wall_row.ElementId.kind # "missing"
        THEN IdOf(wall_row.ElementId)
        ELSE IF wall_row.Id.kind # "missing" THEN IdOf(wall_row.Id)
        ELSE IF wall_row.Name.kind # "missing" THEN wall_row.Name
        ELSE unknown

\* None is [valid |-> FALSE].
get_wall_dimensions(wall_row) ==
    LET length_ft == safe_float(wall_row.Length, Exact(0))
        height_ft == safe_float(wall_row.UnconnectedHeight, Exact(0))
    IN  IF length_ft \preceq Exact(0) \/ height_ft \preceq Exact(0)
        THEN [valid |-> FALSE, w |-> Exact(0), h |-> Exact(0)]
        ELSE [valid |-> TRUE, w |-> FeetToInches(length_ft),
              h |-> FeetToInches(height_ft)]

\* Variant: a row is skipped for its width alone.
RowSkipped_width_only(row) ==
    safe_float(row.Width, Exact(0)) \preceq Exact(0)

\* if width_ft <= 0 or height_ft <= 0: continue
RowSkipped(row) ==
    \/ safe_float(row.Width, Exact(0)) \preceq Exact(0)
    \/ safe_float(row.Height, Exact(0)) \preceq Exact(0)

\* float(left_ft * 12) with left_ft = pos - (width_ft / 2.0). Halving is
\* exact in a float, so that left_ft is half the float 2 * pos - width_ft
\* and its twelvefold is the sixfold of that float.
CenteredLeftInches(pos, width_ft) ==
    DoubleMul(6, DoubleMul(2, pos) (-) width_ft)

\* The Opening built from a row that is not skipped.
OpeningOfRow(row, door_clearances, window_clearances, storefront_clearances) ==
    LET width_ft == safe_float(row.Width, Exact(0))
        left_ft  == safe_float(row.LeftEdgeAlongWall, Exact(0))
        pos      == safe_float(row.PositionAlongWall, Exact(0))
        x_in     == IF left_ft = Exact(0) /\ pos # Exact(0)
                    THEN CenteredLeftInches(pos, width_ft)
                    ELSE FeetToInches(left_ft)
    IN  Opening(row.OpeningId, OpeningTypeFor(row.OpeningType), x_in,
                FeetToInches(safe_float(row.SillHeight, Exact(0))),
                FeetToInches(width_ft),
                FeetToInches(safe_float(row.Height, Exact(0))),
                ClearancesFor(row.OpeningType, door_clearances,
                              window_clearances, storefront_clearances))

\* wall_id_int = int(float(wall_id)); the rows of the wall are those with
\* safe_float(r.get("HostWallId"), None) == wall_id_int.
get_wall_openings(wall_id, rows, door_clearances, window_clearances, storefront_clearances) ==
    IF wall_id.kind # "num" THEN <<>>
    ELSE LET wall_id_int == IntOf(wall_id.v)
             wall_openings ==
                 SelectSeq(rows, LAMBDA r :
                     /\ r.HostWallId.kind = "num"
                     /\ r.HostWallId.v = wall_id_int)
             kept == SelectSeq(wall_openings, LAMBDA r : ~RowSkipped(r))
         IN  [i \in 1..Len(kept) |->
                 OpeningOfRow(kept[i], door_clearances, window_clearances,
                              storefront_clearances)]

\* The record process_wall builds for a panel, with the cutouts that
\* process_all_walls recomputes from the panel's rectangle.
PanelRecord(panel, wall_id, ops) ==
    [panel_name |-> panel.name, wall_id |-> wall_id,
     x_in |-> panel.x, y_in |-> panel.y,
     width_in |-> panel.w, height_in |-> panel.h,
     cutouts |-> calculate_panel_cutouts(panel, ops)]

\* Lines 1128-1142: the next wall_row; a row without dimensions is skipped,
\* otherwise place_panels_sequential is entered with the wall's openings.
ReadWall ==
    /\ pc = "rows"
    /\ wi <= Len(walls_rows)
    /\ LET wall_row == walls_rows[wi]
           dims == get_wall_dimensions(wall_row)
       IN  IF ~dims.valid
           THEN /\ wi' = wi + 1
                /\ UNCHANGED <<wall_width, wall_height, openings, pc, last>>
           ELSE /\ wall_width' = dims.w
                /\ wall_height' = dims.h
                /\ openings' = get_wall_openings(get_wall_id(wall_row),
                                   openings_rows, call.door_clearances,
                                   call.window_clearances,
                                   call.storefront_clearances)
                /\ pc' = "start"
                /\ last' = "init"
                /\ wi' = wi
    /\ UNCHANGED <<constraints, orientation, walls_rows, openings_rows,
                   all_panel_records, sorted_openings, blocking_storefronts,
                   regular_openings, regions, ri, bands, bi, x_cursor,
                   gap_openings, panels, panel_counter, layout_call,
                   ACTIVE_CONFIG, call>>

\* Lines 1072-1159: the returned panels become records of the wall and the
\* loop goes on to the next wall_row.
WriteRecords ==
    /\ pc = "done"
    /\ call.fn = "process_all_walls"
    /\ all_panel_records' = all_panel_records \o
           [i \in 1..Len(panels) |->
               PanelRecord(panels[i], get_wall_id(walls_rows[wi]), openings)]
    /\ wi' = wi + 1
    /\ pc' = "rows"
    /\ UNCHANGED <<inputs, walls_rows, openings_rows, sorted_openings,
                   blocking_storefronts, regular_openings, regions, ri, bands,
                   bi, x_cursor, gap_openings, panels, panel_counter, last,
                   layout_call, ACTIVE_CONFIG, call>>

\* Lines 1161-1198: after the last wall_row the records are written.
Finish ==
    /\ pc = "rows"
    /\ wi > Len(walls_rows)
    /\ pc' = "finished"
    /\ UNCHANGED <<inputs, caller, sorted_openings, blocking_storefronts,
                   regular_openings, regions, ri, bands, bi, x_cursor,
                   gap_openings, panels, panel_counter, last, layout_call>>

WallTall == WallRow(Num(7000), Num(20000), Num(12500))

WallLow == WallRow(Num(7000), Num(40000), Num(9000))

WallNoLength == WallRow(Num(7000), Missing, Num(9000))

WallTextHeight == WallRow(Num(8000), Num(20000), Text)

WallZeroLength == WallRow(Num(7000), Num(0), Num(9000))

WallNamed == WallRow(Text, Num(20000), Num(9000))

\* ElementId 7.9 in place of a WallId.
WallByElementId ==
    [WallRow(Missing, Num(20000), Num(12500)) EXCEPT !.ElementId = Num(7900)]

\* Name 7.5 in place of an id column.
WallByName ==
    [WallRow(Missing, Num(20000), Num(12500)) EXCEPT !.Name = Num(7500)]

WallWithoutId == WallRow(Missing, Num(20000), Num(9000))

WallRowLists ==
    {<<>>, <<WallTall>>, <<WallLow>>, <<WallZeroLength>>,
     <<WallNoLength, WallTall>>, <<WallLow, WallTextHeight>>,
     <<WallNamed, WallLow>>, <<WallTall, WallLow>>, <<WallByElementId>>,
     <<WallWithoutId, WallByName>>}

CsvDoor ==
    CsvRow(<<"1", "1">>, Num(7000), Door, Num(3000), Num(7000), Num(0),
           Num(8000), Missing)

CsvWideDoor ==
    CsvRow(<<"1", "2">>, Num(7000), Door, Num(7000), Num(7000), Num(0),
           Num(1000), Missing)

CsvWindowNear ==
    CsvRow(<<"1", "3">>, Num(7000), Window, Num(12500), Num(7000), Num(3000),
           Num(1500), Missing)

CsvCurtain ==
    CsvRow(<<"1", "4">>, Num(7000), CurtainWall, Num(12000), Num(7000),
           Num(0), Num(4000), Missing)

CsvCentered ==
    CsvRow(<<"1", "5">>, Num(7000), Window, Num(3000), Num(4000), Num(3000),
           Missing, Num(15500))

CsvNoWidth ==
    CsvRow(<<"1", "6">>, Num(7000), Door, Missing, Num(7000), Num(0),
           Num(8000), Missing)

CsvTextHeight ==
    CsvRow(<<"1", "7">>, Num(7000), Window, Num(12500), Text, Num(3000),
           Num(1500), Missing)

CsvNegativeWidth ==
    CsvRow(<<"1", "8">>, Num(7000), Door, Num(-7000), Num(7000), Num(0),
           Num(8000), Missing)

CsvOtherWall ==
    CsvRow(<<"1", "9">>, Num(8000), Door, Num(3000), Num(7000), Num(0),
           Num(2000), Missing)

CsvRows == {CsvDoor, CsvWideDoor, CsvWindowNear, CsvCurtain, CsvCentered,
            CsvNoWidth, CsvTextHeight, CsvNegativeWidth, CsvOtherWall}

\* process_all_walls is entered with a configuration, the clearances of
\* a configuration, wall rows and opening rows.
InitRows ==
    /\ \E cfg \in Presets, given \in Presets :
          /\ constraints = cfg.panel_constraints
          /\ orientation = PanelOrientation(cfg)
          /\ ACTIVE_CONFIG = cfg
          /\ call = ProcessAllWallsCall("script", given.door_clearances,
                                        given.window_clearances,
                                        given.storefront_clearances,
                                        cfg, vertical)
    /\ walls_rows \in WallRowLists
    /\ \E n \in 0..MaxOpenings : openings_rows \in [1..n -> CsvRows]
    /\ wi = 1
    /\ all_panel_records = <<>>
    /\ layout_call = <<>>
    /\ pc = "rows"
    /\ wall_width = Exact(0)
    /\ wall_height = Exact(0)
    /\ openings = <<>>
    /\ sorted_openings = <<>>
    /\ blocking_storefronts = <<>>
    /\ regular_openings = <<>>
    /\ regions = <<>>
    /\ ri = 0
    /\ bands = <<>>
    /\ bi = 0
    /\ x_cursor = Exact(0)
    /\ gap_openings = <<>>
    /\ panels = <<>>
    /\ panel_counter = 0
    /\ last = "init"

NextRows ==
    \/ ReadWall
    \/ BuildRegions
    \/ BeginRegion
    \/ Bridge
    \/ Jump
    \/ PlacePanel
    \/ EndBand
    \/ GapFillRegion
    \/ AdjustSeams
    \/ GlobalFill
    \/ WriteRecords
    \/ Finish

SpecRows == InitRows /\ [][NextRows]_vars

-----------------------------------------------------------------------------
(* calculate_segment_layout called on its own *)

\* 152.4 is no whole number of eighths: the distance from it is rounded.
SegmentStarts == {0, 119125, 152400}

SegmentDistances ==
    {0 - 5000, 0, 12000, 23999, 24000, 40000, 100500, 138000, 138001, 190000,
     240000, 276125, 276126, 480000, 958200, 1440000}

SegmentMaxWidths == {138000, 30000, 1000}

SegmentMinWidths == {24000, 12000}

SegmentIncrements == {1000, 2500, 7000, 100}

SegmentSpacings == {0, 125, 1000}

InitSegment ==
    /\ \E start_x \in SegmentStarts, d \in SegmentDistances,
          max_w \in SegmentMaxWidths, min_w \in SegmentMinWidths,
          inc \in SegmentIncrements, spacing \in SegmentSpacings :
          layout_call = [start_x |-> Double(start_x),
                         target_x |-> Double(start_x + d),
                         max_w |-> Double(max_w), min_w |-> Double(min_w),
                         inc |-> Double(inc), spacing |-> Double(spacing),
                         returned |-> FALSE, result |-> Exact(0)]
    /\ pc = "layout"
    /\ wall_width = Exact(0)
    /\ wall_height = Exact(0)
    /\ openings = <<>>
    /\ constraints = VerticalPreset.panel_constraints
    /\ orientation = vertical
    /\ sorted_openings = <<>>
    /\ blocking_storefronts = <<>>
    /\ regular_openings = <<>>
    /\ regions = <<>>
    /\ ri = 0
    /\ bands = <<>>
    /\ bi = 0
    /\ x_cursor = Exact(0)
    /\ gap_openings = <<>>
    /\ panels = <<>>
    /\ panel_counter = 0
    /\ last = "init"
    /\ walls_rows = <<>>
    /\ openings_rows = <<>>
    /\ wi = 0
    /\ all_panel_records = <<>>
    /\ ACTIVE_CONFIG = None
    /\ call = NoCall

\* The call and its return value.
CallSegmentLayout ==
    /\ pc = "layout"
    /\ layout_call' =
           [layout_call EXCEPT
               !.returned = TRUE,
               !.result = calculate_segment_layout(
                              layout_call.start_x, layout_call.target_x,
                              layout_call.max_w, layout_call.min_w,
                              layout_call.inc, layout_call.spacing)]
    /\ pc' = "layout_done"
    /\ UNCHANGED <<inputs, caller, sorted_openings, blocking_storefronts,
                   regular_openings, regions, ri, bands, bi, x_cursor,
                   gap_openings, panels, panel_counter, last>>

NextSegment == CallSegmentLayout

SpecSegment == InitSegment /\ [][NextSegment]_vars

-----------------------------------------------------------------------------
(* ACTIVE_CONFIG across calls of process_wall, process_all_walls and main *)

\* presets.get(orientation, presets["vertical"])
PresetNamed(name) ==
    IF name = horizontal THEN HorizontalPreset ELSE VerticalPreset

\* The orientation argument of process_all_walls; a name that is no preset
\* falls back to the vertical preset.
OrientationArgs == {vertical, horizontal, diagonal}

ConfigArgs == {None} \cup Presets

\* Walls and openings handed to the entry points. The clearance arguments
\* of process_all_walls are those of a preset; the openings of process_wall
\* carry the vertical preset's clearances.
ConfigWallRowLists == {<<WallTall>>, <<WallLow>>, <<WallTall, WallLow>>}

ConfigOpeningRowLists == {<<>>, <<CsvDoor>>, <<CsvCentered>>}

ConfigWallOpenings == {<<>>, <<WindowNear>>, <<WindowFar>>}

\* No call is in progress: nothing was called yet, process_wall has
\* returned, or process_all_walls or main has returned.
AtTopLevel ==
    \/ pc = "idle"
    \/ pc = "done" /\ call.fn = "process_wall"
    \/ pc = "finished"

\* Lines 1061-1063.
ActiveConfigInProcessWall ==
    IF ACTIVE_CONFIG = None THEN HorizontalPreset ELSE ACTIVE_CONFIG

\* Variant: process_all_walls without a config argument always installs the
\* preset named by its orientation argument.
ActiveConfigInProcessAllWalls_by_orientation(config, orientation_arg) ==
    IF config # None THEN config ELSE PresetNamed(orientation_arg)

\* Lines 1118-1124.
ActiveConfigInProcessAllWalls(config, orientation_arg) ==
    IF config # None THEN config
    ELSE IF ACTIVE_CONFIG = None THEN PresetNamed(orientation_arg)
    ELSE ACTIVE_CONFIG

\* process_wall called directly: lines 1061-1070, up to the entry of
\* place_panels_sequential.
ProcessWall ==
    /\ AtTopLevel
    /\ ACTIVE_CONFIG' = ActiveConfigInProcessWall
    /\ orientation' = PanelOrientation(ACTIVE_CONFIG')
    /\ constraints' = ACTIVE_CONFIG'.panel_constraints
    /\ \E W \in {240000, 480000}, H \in {108000, 150000},
          rows \in ConfigWallOpenings :
          /\ RowsOnWall(rows, W, H)
          /\ wall_width' = Double(W)
          /\ wall_height' = Double(H)
          /\ openings' = OpeningsFromRows(rows, VerticalPreset)
    /\ call' = ProcessWallCall
    /\ pc' = "start"
    /\ last' = "init"
    /\ UNCHANGED <<walls_rows, openings_rows, wi, all_panel_records,
                   sorted_openings, blocking_storefronts, regular_openings,
                   regions, ri, bands, bi, x_cursor, gap_openings, panels,
                   panel_counter, layout_call>>

\* process_all_walls, lines 1118-1126, up to the loop over walls_rows;
\* each process_wall of the loop reads ACTIVE_CONFIG.
EnterProcessAllWalls(from, door_clearances, window_clearances, storefront_clearances, config_arg, orientation_arg) ==
    /\ ACTIVE_CONFIG' =
           ActiveConfigInProcessAllWalls(config_arg, orientation_arg)
    /\ call' = ProcessAllWallsCall(from, door_clearances, window_clearances,
                                   storefront_clearances, config_arg,
                                   orientation_arg)
    /\ orientation' = PanelOrientation(ACTIVE_CONFIG')
    /\ constraints' = ACTIVE_CONFIG'.panel_constraints
    /\ walls_rows' \in ConfigWallRowLists
    /\ openings_rows' \in ConfigOpeningRowLists
    /\ wi' = 1
    /\ all_panel_records' = <<>>
    /\ pc' = "rows"
    /\ UNCHANGED <<wall_width, wall_height, openings, sorted_openings,
                   blocking_storefronts, regular_openings, regions, ri, bands,
                   bi, x_cursor, gap_openings, panels, panel_counter, last,
                   layout_call>>

\* process_all_walls called by the UI script, with the clearances of a
\* configuration, a config argument and an orientation argument.
ProcessAllWalls ==
    /\ AtTopLevel
    /\ \E given \in Presets, config_arg \in ConfigArgs,
          orientation_arg \in OrientationArgs :
          EnterProcessAllWalls("script", given.door_clearances,
                               given.window_clearances,
                               given.storefront_clearances, config_arg,
                               orientation_arg)

\* main(), lines 1921-1930: the configuration loaded from
\* optimizer_config.json, or made by create_simple_config, is assigned to
\* ACTIVE_CONFIG.
Main ==
    /\ AtTopLevel
    /\ \E loaded \in Presets :
          /\ ACTIVE_CONFIG' = loaded
          /\ call' = MainCall(loaded)
    /\ pc' = "main"
    /\ UNCHANGED <<inputs, walls_rows, openings_rows, wi, all_panel_records,
                   sorted_openings, blocking_storefronts, regular_openings,
                   regions, ri, bands, bi, x_cursor, gap_openings, panels,
                   panel_counter, last, layout_call>>

\* main(), lines 1939-1941: without a walls.csv main returns.
MainReturn ==
    /\ pc = "main"
    /\ pc' = "finished"
    /\ UNCHANGED <<inputs, caller, sorted_openings, blocking_storefronts,
                   regular_openings, regions, ri, bands, bi, x_cursor,
                   gap_openings, panels, panel_counter, last, layout_call>>

\* main(), lines 1943-1956: process_all_walls is called with the rows of
\* the two files and the three clearances of main's config, without a
\* config argument and with the default orientation "vertical".
MainProcessAllWalls ==
    /\ pc = "main"
    /\ EnterProcessAllWalls("main", call.config.door_clearances,
                            call.config.window_clearances,
                            call.config.storefront_clearances, None,
                            vertical)

\* The module has just been imported: ACTIVE_CONFIG = None (line 28).
InitConfig ==
    /\ ACTIVE_CONFIG = None
    /\ call = NoCall
    /\ pc = "idle"
    /\ constraints = VerticalPreset.panel_constraints
    /\ orientation = vertical
    /\ wall_width = Exact(0)
    /\ wall_height = Exact(0)
    /\ openings = <<>>
    /\ sorted_openings = <<>>
    /\ blocking_storefronts = <<>>
    /\ regular_openings = <<>>
    /\ regions = <<>>
    /\ ri = 0
    /\ bands = <<>>
    /\ bi = 0
    /\ x_cursor = Exact(0)
    /\ gap_openings = <<>>
    /\ panels = <<>>
    /\ panel_counter = 0
    /\ last = "init"
    /\ walls_rows = <<>>
    /\ openings_rows = <<>>
    /\ wi = 0
    /\ all_panel_records = <<>>
    /\ layout_call = <<>>

NextConfig ==
    \/ ProcessWall
    \/ ProcessAllWalls
    \/ Main
    \/ MainReturn
    \/ MainProcessAllWalls
    \/ ReadWall
    \/ BuildRegions
    \/ BeginRegion
    \/ Bridge
    \/ Jump
    \/ PlacePanel
    \/ EndBand
    \/ GapFillRegion
    \/ AdjustSeams
    \/ GlobalFill
    \/ WriteRecords
    \/ Finish

SpecConfig == InitConfig /\ [][NextConfig]_vars

-----------------------------------------------------------------------------
(* The interactive configuration editor: create_simple_config,            *)
(* edit_panel_constraints, edit_panel_dimensions, edit_clearances,         *)
(* edit_orientation and create_custom_config                               *)

\* The configuration under edit is held by `constraints` (its
\* panel_constraints), `orientation` (its optimization_strategy's
\* panel_orientation) and the fields project_name, door_clearances,
\* window_clearances, storefront_clearances and prefer_full_height_panels
\* of `call`. pc is the prompt that waits for the user's input.

\* The text "nan": float() accepts it and gives a float that is no number.
NanText == [kind |-> "nan"]

\* float(text) of an input that float() accepts.
FloatOf(cell) == IF cell.kind = "nan" THEN nan ELSE Double(cell.v)

\* float(text) raises no ValueError.
IsFloatText(cell) == cell.kind \in {"num", "nan"}

\* What the user types at a prompt of edit_panel_dimensions: nothing (keep
\* the value), text that float() rejects, a number (thousandths of an
\* inch), or "nan".
EditValues == {0, 24000, 138000, 348000, 400000}

EditInputs == {Missing, Text, NanText} \cup {Num(v) : v \in EditValues}

\* What the user types at a prompt of edit_opening_clearance: a negative
\* number is refused, a number above 24 draws a warning.
ClearanceValues == {0 - 1000, 0, 30000}

ClearanceInputs == {Missing, Text, NanText} \cup {Num(v) : v \in ClearanceValues}

\* Answers to the menus and to the yes/no questions, as typed.
NoAnswer == <<>>

MenuAnswers == {NoAnswer, <<"1">>, <<"2">>, <<"3">>, <<"4">>, <<"5">>, <<"x">>}

YesNoAnswers == {NoAnswer, <<"y">>, <<"n">>, <<"Y">>, <<"N">>}

PresetAnswers == {NoAnswer, <<"y">>, <<"n">>, <<"e">>, <<"e", "d", "i", "t">>}

\* Project names: of the presets, of create_custom_config, and one the user
\* types.
VerticalPanels == <<"V", "e", "r", "t", "i", "c", "a", "l", " ", "P", "a", "n", "e", "l", "s">>

HorizontalPanels == <<"H", "o", "r", "i", "z", "o", "n", "t", "a", "l", " ", "P", "a", "n", "e", "l", "s">>

CustomConfiguration == <<"C", "u", "s", "t", "o", "m", " ", "C", "o", "n", "f", "i", "g", "u", "r", "a", "t", "i", "o", "n">>

Tower == <<"T", "o", "w", "e", "r">>

ProjectNameAnswers == {NoAnswer, Tower}

\* project_name and prefer_full_height_panels of a preset.
ProjectNameOf(cfg) ==
    IF cfg.panel_orientation = horizontal THEN HorizontalPanels
    ELSE VerticalPanels

PreferFullHeightOf(cfg) == cfg.panel_orientation = vertical

\* The entry point fn is in progress and, inside it, the function `editor`;
\* the configuration under edit has the fields of cfg and the given name.
\* choice is the local of edit_panel_constraints, opening_type the argument
\* of edit_opening_clearance, edits the number of values typed and accepted
\* so far.
EditorCall(fn, editor, cfg, project_name) ==
    [fn |-> fn, editor |-> editor, project_name |-> project_name,
     door_clearances |-> cfg.door_clearances,
     window_clearances |-> cfg.window_clearances,
     storefront_clearances |-> cfg.storefront_clearances,
     prefer_full_height_panels |-> PreferFullHeightOf(cfg),
     choice |-> NoAnswer, opening_type |-> Door, edits |-> 0]

\* config = cfg with config.project_name = project_name, inside c.
WithConfig(c, cfg, project_name) ==
    [c EXCEPT !.project_name = project_name,
              !.door_clearances = cfg.door_clearances,
              !.window_clearances = cfg.window_clearances,
              !.storefront_clearances = cfg.storefront_clearances,
              !.prefer_full_height_panels = PreferFullHeightOf(cfg)]

\* A session of the menu goes on as long as the user answers "y": the model
\* follows the sessions in which at most MaxEdits values are typed and
\* accepted. A lone call of edit_panel_dimensions has seven prompts and is
\* followed whatever is typed.
MaxEdits == 2

MayType(c) == c.fn = "edit_panel_dimensions" \/ c.edits < MaxEdits

Typed(c) ==
    IF c.fn = "edit_panel_dimensions" THEN c ELSE [c EXCEPT !.edits = @ + 1]

\* Where edit_panel_dimensions returns to: out of the module when it was
\* called on its own, create_custom_config (line 1870), or
\* edit_panel_constraints at choice 1 (line 1528) or 4 (line 1534).
AfterDimensions(c) ==
    IF c.editor = "edit_panel_dimensions" THEN "edit_done"
    ELSE IF c.editor = "create_custom_config" THEN "custom_clearances"
    ELSE IF c.choice = <<"4">> THEN "edit_jamb"
    ELSE "edit_more"

\* Where edit_clearances returns to: create_custom_config (line 1876), or
\* edit_panel_constraints at choice 2 (line 1530) or 4 (line 1535).
AfterClearances(c) ==
    IF c.editor = "create_custom_config" THEN "custom_confirm"
    ELSE IF c.choice = <<"4">> THEN "edit_orientation"
    ELSE "edit_more"

\* Where edit_panel_constraints and create_custom_config return to:
\* create_simple_config goes on to its project name prompt.
AfterEditor(c) ==
    IF c.fn = "create_simple_config" THEN "simple_project_name"
    ELSE "edit_done"

\* The function in progress has returned to the entry point: its locals are
\* gone.
EditorReturned(c) == [c EXCEPT !.editor = c.fn, !.choice = NoAnswer]

EditFrame ==
    UNCHANGED <<wall_width, wall_height, openings, walls_rows, openings_rows,
                wi, all_panel_records, ACTIVE_CONFIG, layout_call,
                sorted_openings, blocking_storefronts, regular_openings,
                regions, ri, bands, bi, x_cursor, gap_openings, panels,
                panel_counter, last>>

\* create_simple_config: the preset menu. An empty answer is "1"; any answer
\* but "1" and "2" runs create_custom_config, which starts from the vertical
\* preset renamed "Custom Configuration".
SimpleChoice ==
    /\ pc = "simple_choice"
    /\ \E typed \in MenuAnswers :
           LET choice == IF typed = NoAnswer THEN <<"1">> ELSE typed
           IN  IF choice = <<"1">>
               THEN /\ constraints' = VerticalPreset.panel_constraints
                    /\ orientation' = VerticalPreset.panel_orientation
                    /\ call' = WithConfig(call, VerticalPreset, VerticalPanels)
                    /\ pc' = "simple_confirm"
               ELSE IF choice = <<"2">>
               THEN /\ constraints' = HorizontalPreset.panel_constraints
                    /\ orientation' = HorizontalPreset.panel_orientation
                    /\ call' = WithConfig(call, HorizontalPreset,
                                          HorizontalPanels)
                    /\ pc' = "simple_confirm"
               ELSE /\ constraints' = VerticalPreset.panel_constraints
                    /\ orientation' = VerticalPreset.panel_orientation
                    /\ call' = [WithConfig(call, VerticalPreset,
                                           CustomConfiguration)
                                   EXCEPT !.editor = "create_custom_config"]
                    /\ pc' = "custom_orientation"
    /\ EditFrame

\* "Use these preset values? (y/n/edit)": "n" starts create_simple_config
\* over, "edit" or "e" runs edit_panel_constraints on the preset.
SimpleConfirm ==
    /\ pc = "simple_confirm"
    /\ \E typed \in PresetAnswers :
           LET confirm == lower(typed)
           IN  IF confirm = <<"n">>
               THEN pc' = "simple_choice" /\ UNCHANGED call
               ELSE IF confirm \in {<<"e", "d", "i", "t">>, <<"e">>}
               THEN /\ pc' = "edit_choice"
                    /\ call' = [call EXCEPT
                                   !.editor = "edit_panel_constraints"]
               ELSE pc' = "simple_project_name" /\ UNCHANGED call
    /\ UNCHANGED <<constraints, orientation>>
    /\ EditFrame

\* The project name prompt, and the return of create_simple_config.
SimpleProjectName ==
    /\ pc = "simple_project_name"
    /\ \E project_name \in ProjectNameAnswers :
           call' = IF project_name # NoAnswer
                   THEN [call EXCEPT !.project_name = project_name]
                   ELSE call
    /\ pc' = "edit_done"
    /\ UNCHANGED <<constraints, orientation>>
    /\ EditFrame

\* edit_panel_constraints: one pass of its `while True`. An empty answer is
\* "5"; an answer that is no choice repeats the prompt.
EditChoice ==
    /\ pc = "edit_choice"
    /\ \E typed \in MenuAnswers :
           LET choice == IF typed = NoAnswer THEN <<"5">> ELSE typed
           IN  /\ call' = [call EXCEPT !.choice = choice]
               /\ pc' = IF choice \in {<<"1">>, <<"4">>} THEN "edit_min_width"
                        ELSE IF choice = <<"2">> THEN "edit_jamb"
                        ELSE IF choice = <<"3">> THEN "edit_orientation"
                        ELSE IF choice = <<"5">> THEN "edit_confirm"
                        ELSE "edit_choice"
    /\ UNCHANGED <<constraints, orientation>>
    /\ EditFrame

\* "Edit another section?" after choice 1, 2 or 3.
EditMore ==
    /\ pc = "edit_more"
    /\ \E typed \in YesNoAnswers :
           pc' = IF lower(typed) # <<"y">> THEN "edit_confirm"
                 ELSE "edit_choice"
    /\ UNCHANGED <<constraints, orientation, call>>
    /\ EditFrame

\* "Use this configuration?": "n" returns a new preset, the vertical one if
\* the project name holds "vertical" and the horizontal one if not.
EditConfirm ==
    /\ pc = "edit_confirm"
    /\ \E typed \in YesNoAnswers :
           IF lower(typed) = <<"n">>
           THEN LET preset ==
                        IF Contains(lower(call.project_name), vertical)
                        THEN VerticalPreset ELSE HorizontalPreset
                IN  /\ constraints' = preset.panel_constraints
                    /\ orientation' = preset.panel_orientation
                    /\ call' = EditorReturned(
                                   WithConfig(call, preset,
                                              ProjectNameOf(preset)))
           ELSE /\ call' = EditorReturned(call)
                /\ UNCHANGED <<constraints, orientation>>
    /\ pc' = AfterEditor(call)
    /\ EditFrame

\* edit_panel_dimensions. One pass of the `while True` of a prompt: an empty
\* input keeps the value and leaves the loop, an accepted number is assigned
\* and leaves the loop, any other input repeats the prompt.
EditMinWidth ==
    /\ pc = "edit_min_width"
    /\ \E cell \in EditInputs :
           IF cell.kind = "missing"
           THEN pc' = "edit_max_width" /\ UNCHANGED <<constraints, call>>
           ELSE IF /\ IsFloatText(cell)
                   /\ ~Le(FloatOf(cell), Exact(0))
                   /\ ~Ge(FloatOf(cell), constraints.max_width)
                THEN /\ MayType(call)
                     /\ constraints' = [constraints EXCEPT !.min_width = FloatOf(cell)]
                     /\ call' = Typed(call)
                     /\ pc' = "edit_max_width"
                ELSE UNCHANGED <<pc, constraints, call>>
    /\ UNCHANGED orientation
    /\ EditFrame

\* A value above long_max draws a warning and is assigned all the same.
EditMaxWidth ==
    /\ pc = "edit_max_width"
    /\ \E cell \in EditInputs :
           IF cell.kind = "missing"
           THEN pc' = "edit_min_height" /\ UNCHANGED <<constraints, call>>
           ELSE IF /\ IsFloatText(cell)
                   /\ ~Le(FloatOf(cell), constraints.min_width)
                THEN /\ MayType(call)
                     /\ constraints' = [constraints EXCEPT !.max_width = FloatOf(cell)]
                     /\ call' = Typed(call)
                     /\ pc' = "edit_min_height"
                ELSE UNCHANGED <<pc, constraints, call>>
    /\ UNCHANGED orientation
    /\ EditFrame

EditMinHeight ==
    /\ pc = "edit_min_height"
    /\ \E cell \in EditInputs :
           IF cell.kind = "missing"
           THEN pc' = "edit_max_height" /\ UNCHANGED <<constraints, call>>
           ELSE IF /\ IsFloatText(cell)
                   /\ ~Le(FloatOf(cell), Exact(0))
                   /\ ~Ge(FloatOf(cell), constraints.max_height)
                THEN /\ MayType(call)
                     /\ constraints' = [constraints EXCEPT !.min_height = FloatOf(cell)]
                     /\ call' = Typed(call)
                     /\ pc' = "edit_max_height"
                ELSE UNCHANGED <<pc, constraints, call>>
    /\ UNCHANGED orientation
    /\ EditFrame

EditMaxHeight ==
    /\ pc = "edit_max_height"
    /\ \E cell \in EditInputs :
           IF cell.kind = "missing"
           THEN pc' = "edit_short_max" /\ UNCHANGED <<constraints, call>>
           ELSE IF /\ IsFloatText(cell)
                   /\ ~Le(FloatOf(cell), constraints.min_height)
                THEN /\ MayType(call)
                     /\ constraints' = [constraints EXCEPT !.max_height = FloatOf(cell)]
                     /\ call' = Typed(call)
                     /\ pc' = "edit_short_max"
                ELSE UNCHANGED <<pc, constraints, call>>
    /\ UNCHANGED orientation
    /\ EditFrame

EditShortMax ==
    /\ pc = "edit_short_max"
    /\ \E cell \in EditInputs :
           IF cell.kind = "missing"
           THEN pc' = "edit_long_max" /\ UNCHANGED <<constraints, call>>
           ELSE IF /\ IsFloatText(cell)
                   /\ ~Le(FloatOf(cell), Exact(0))
                   /\ ~Gt(FloatOf(cell), constraints.long_max)
                THEN /\ MayType(call)
                     /\ constraints' = [constraints EXCEPT !.short_max = FloatOf(cell)]
                     /\ call' = Typed(call)
                     /\ pc' = "edit_long_max"
                ELSE UNCHANGED <<pc, constraints, call>>
    /\ UNCHANGED orientation
    /\ EditFrame

EditLongMax ==
    /\ pc = "edit_long_max"
    /\ \E cell \in EditInputs :
           IF cell.kind = "missing"
           THEN pc' = "edit_increment" /\ UNCHANGED <<constraints, call>>
           ELSE IF /\ IsFloatText(cell)
                   /\ ~Lt(FloatOf(cell), constraints.short_max)
                THEN /\ MayType(call)
                     /\ constraints' = [constraints EXCEPT !.long_max = FloatOf(cell)]
                     /\ call' = Typed(call)
                     /\ pc' = "edit_increment"
                ELSE UNCHANGED <<pc, constraints, call>>
    /\ UNCHANGED orientation
    /\ EditFrame

\* The last prompt; leaving its loop, edit_panel_dimensions returns.
EditIncrement ==
    /\ pc = "edit_increment"
    /\ \E cell \in EditInputs :
           IF cell.kind = "missing"
           THEN pc' = AfterDimensions(call) /\ UNCHANGED <<constraints, call>>
           ELSE IF IsFloatText(cell) /\ ~Le(FloatOf(cell), Exact(0))
                THEN /\ MayType(call)
                     /\ constraints' =
                            [constraints EXCEPT
                                !.dimension_increment = FloatOf(cell)]
                     /\ call' = Typed(call)
                     /\ pc' = AfterDimensions(call)
                ELSE UNCHANGED <<pc, constraints, call>>
    /\ UNCHANGED orientation
    /\ EditFrame

\* edit_clearances calls edit_opening_clearance for "Door", "Window" and
\* "Storefront" in turn, on config.door_clearances, config.window_clearances
\* and config.storefront_clearances.
ClearancesUnderEdit(c) ==
    IF c.opening_type = Door THEN c.door_clearances
    ELSE IF c.opening_type = Window THEN c.window_clearances
    ELSE c.storefront_clearances

WithClearances(c, clearances) ==
    IF c.opening_type = Door THEN [c EXCEPT !.door_clearances = clearances]
    ELSE IF c.opening_type = Window
    THEN [c EXCEPT !.window_clearances = clearances]
    ELSE [c EXCEPT !.storefront_clearances = clearances]

\* edit_opening_clearance, the Jamb prompt: an empty input keeps the value,
\* a number that is not negative is assigned, any other input repeats the
\* prompt.
EditJamb ==
    /\ pc = "edit_jamb"
    /\ \E cell \in ClearanceInputs :
           IF cell.kind = "missing"
           THEN pc' = "edit_header" /\ UNCHANGED call
           ELSE IF IsFloatText(cell) /\ ~Lt(FloatOf(cell), Exact(0))
                THEN /\ MayType(call)
                     /\ call' = Typed(WithClearances(call,
                                   [ClearancesUnderEdit(call) EXCEPT
                                       !.jamb_min = FloatOf(cell)]))
                     /\ pc' = "edit_header"
                ELSE UNCHANGED <<pc, call>>
    /\ UNCHANGED <<constraints, orientation>>
    /\ EditFrame

EditHeader ==
    /\ pc = "edit_header"
    /\ \E cell \in ClearanceInputs :
           IF cell.kind = "missing"
           THEN pc' = "edit_sill" /\ UNCHANGED call
           ELSE IF IsFloatText(cell) /\ ~Lt(FloatOf(cell), Exact(0))
                THEN /\ MayType(call)
                     /\ call' = Typed(WithClearances(call,
                                   [ClearancesUnderEdit(call) EXCEPT
                                       !.header_min = FloatOf(cell)]))
                     /\ pc' = "edit_sill"
                ELSE UNCHANGED <<pc, call>>
    /\ UNCHANGED <<constraints, orientation>>
    /\ EditFrame

\* After the Sill prompt edit_opening_clearance returns: edit_clearances
\* calls it for the next opening type, or returns after "Storefront".
AfterSill(c) ==
    IF c.opening_type = Door THEN [c EXCEPT !.opening_type = Window]
    ELSE IF c.opening_type = Window
    THEN [c EXCEPT !.opening_type = Storefront]
    ELSE [c EXCEPT !.opening_type = Door]

EditSill ==
    /\ pc = "edit_sill"
    /\ \E cell \in ClearanceInputs :
           LET next == IF call.opening_type = Storefront
                       THEN AfterClearances(call) ELSE "edit_jamb"
           IN  IF cell.kind = "missing"
               THEN pc' = next /\ call' = AfterSill(call)
               ELSE IF IsFloatText(cell) /\ ~Lt(FloatOf(cell), Exact(0))
                    THEN /\ MayType(call)
                         /\ call' = AfterSill(Typed(WithClearances(call,
                                       [ClearancesUnderEdit(call) EXCEPT
                                           !.sill_min = FloatOf(cell)])))
                         /\ pc' = next
                    ELSE UNCHANGED <<pc, call>>
    /\ UNCHANGED <<constraints, orientation>>
    /\ EditFrame

\* edit_orientation, called by edit_panel_constraints at choice 3 (line 1532)
\* or 4 (line 1536, followed by `break`).
EditOrientation ==
    /\ pc = "edit_orientation"
    /\ \E choice \in {NoAnswer, <<"1">>, <<"2">>, <<"x">>} :
           IF choice = <<"1">>
           THEN /\ orientation' = vertical
                /\ call' = [call EXCEPT !.prefer_full_height_panels = TRUE]
           ELSE IF choice = <<"2">>
           THEN /\ orientation' = horizontal
                /\ call' = [call EXCEPT !.prefer_full_height_panels = FALSE]
           ELSE UNCHANGED <<orientation, call>>
    /\ pc' = IF call.choice = <<"4">> THEN "edit_confirm" ELSE "edit_more"
    /\ UNCHANGED constraints
    /\ EditFrame

\* create_custom_config, step 1: "2" starts from the horizontal preset, any
\* other answer keeps the vertical one.
CustomOrientation ==
    /\ pc = "custom_orientation"
    /\ \E typed \in {NoAnswer, <<"1">>, <<"2">>, <<"x">>} :
           LET orient_choice == IF typed = NoAnswer THEN <<"1">> ELSE typed
           IN  IF orient_choice = <<"2">>
               THEN /\ constraints' = HorizontalPreset.panel_constraints
                    /\ orientation' = horizontal
                    /\ call' = WithConfig(call, HorizontalPreset,
                                          CustomConfiguration)
               ELSE /\ orientation' = vertical
                    /\ UNCHANGED <<constraints, call>>
    /\ pc' = "custom_dimensions"
    /\ EditFrame

\* Step 2: edit_panel_dimensions unless the answer is "n".
CustomDimensions ==
    /\ pc = "custom_dimensions"
    /\ \E typed \in YesNoAnswers :
           pc' = IF lower(typed) # <<"n">> THEN "edit_min_width"
                 ELSE "custom_clearances"
    /\ UNCHANGED <<constraints, orientation, call>>
    /\ EditFrame

\* Step 3: edit_clearances unless the answer is "n".
CustomClearances ==
    /\ pc = "custom_clearances"
    /\ \E typed \in YesNoAnswers :
           pc' = IF lower(typed) # <<"n">> THEN "edit_jamb"
                 ELSE "custom_confirm"
    /\ UNCHANGED <<constraints, orientation, call>>
    /\ EditFrame

\* The final review: "n" returns presets["vertical"] of the dict built at
\* line 1843. That object is the configuration under edit itself unless
\* step 1 replaced it by the horizontal preset; it was renamed at line 1845
\* in both cases.
CustomConfirm ==
    /\ pc = "custom_confirm"
    /\ \E typed \in YesNoAnswers :
           IF lower(typed) = <<"n">> /\ orientation = horizontal
           THEN /\ constraints' = VerticalPreset.panel_constraints
                /\ orientation' = VerticalPreset.panel_orientation
                /\ call' = EditorReturned(
                               WithConfig(call, VerticalPreset,
                                          CustomConfiguration))
           ELSE /\ call' = EditorReturned(call)
                /\ UNCHANGED <<constraints, orientation>>
    /\ pc' = AfterEditor(call)
    /\ EditFrame

\* The editor's entry points: edit_panel_dimensions and
\* edit_panel_constraints are called with a preset, create_custom_config
\* has built its starting configuration (lines 1843-1845), and
\* create_simple_config has no configuration before its menu is answered
\* (the variables hold the default preset until SimpleChoice assigns them).
EditorEntries ==
    {[fn |-> "edit_panel_dimensions", cfg |-> cfg,
      project_name |-> ProjectNameOf(cfg), pc |-> "edit_min_width"] :
         cfg \in Presets}
    \cup {[fn |-> "edit_panel_constraints", cfg |-> cfg,
           project_name |-> ProjectNameOf(cfg), pc |-> "edit_choice"] :
              cfg \in Presets}
    \cup {[fn |-> "create_custom_config", cfg |-> VerticalPreset,
           project_name |-> CustomConfiguration,
           pc |-> "custom_orientation"],
          [fn |-> "create_simple_config", cfg |-> VerticalPreset,
           project_name |-> VerticalPanels, pc |-> "simple_choice"]}

InitEdit ==
    /\ \E entry \in EditorEntries :
          /\ constraints = entry.cfg.panel_constraints
          /\ orientation = entry.cfg.panel_orientation
          /\ call = EditorCall(entry.fn, entry.fn, entry.cfg,
                               entry.project_name)
          /\ pc = entry.pc
    /\ wall_width = Exact(0)
    /\ wall_height = Exact(0)
    /\ openings = <<>>
    /\ sorted_openings = <<>>
    /\ blocking_storefronts = <<>>
    /\ regular_openings = <<>>
    /\ regions = <<>>
    /\ ri = 0
    /\ bands = <<>>
    /\ bi = 0
    /\ x_cursor = Exact(0)
    /\ gap_openings = <<>>
    /\ panels = <<>>
    /\ panel_counter = 0
    /\ last = "init"
    /\ walls_rows = <<>>
    /\ openings_rows = <<>>
    /\ wi = 0
    /\ all_panel_records = <<>>
    /\ layout_call = <<>>
    /\ ACTIVE_CONFIG = None

NextEdit ==
    \/ SimpleChoice
    \/ SimpleConfirm
    \/ SimpleProjectName
    \/ EditChoice
    \/ EditMore
    \/ EditConfirm
    \/ EditMinWidth
    \/ EditMaxWidth
    \/ EditMinHeight
    \/ EditMaxHeight
    \/ EditShortMax
    \/ EditLongMax
    \/ EditIncrement
    \/ EditJamb
    \/ EditHeader
    \/ EditSill
    \/ EditOrientation
    \/ CustomOrientation
    \/ CustomDimensions
    \/ CustomClearances
    \/ CustomConfirm

SpecEdit == InitEdit /\ [][NextEdit]_vars

-----------------------------------------------------------------------------
(* Properties of the returned panel list *)

Returned == pc = "done"

PanelIdx == 1..Len(panels)

IsBlocker(o) == \E i \in 1..Len(blocking_storefronts) : blocking_storefronts[i] = o

\* C1: every panel of the returned list satisfies is_valid_panel.
C1_AllPanelsValid ==
    Returned =>
        \A i \in PanelIdx : is_valid_panel(panels[i].w, panels[i].h, constraints)

\* C2: no two distinct panels of the returned list overlap.
C2_NoPanelOverlap ==
    Returned =>
        \A i, j \in PanelIdx : i # j => ~panels_overlap(panels[i], panels[j])

\* C3: no returned panel overlaps the clearance rectangle of a Blocker.
C3_BlockerClearanceFree ==
    Returned =>
        \A i \in PanelIdx : \A k \in 1..Len(openings) :
            is_blocking_storefront(openings[k], constraints) =>
                \/ (panels[i].x (+) panels[i].w)
                       \preceq left_clearance_zone(openings[k])
                \/ panels[i].x \succeq right_clearance_zone(openings[k])
                \/ (panels[i].y (+) panels[i].h)
                       \preceq bottom_clearance_zone(openings[k])
                \/ panels[i].y \succeq top_clearance_zone(openings[k])

\* C4: every cutout of a returned panel lies inside the panel, in
\* panel-local coordinates and with the panel's final width.
C4_CutoutsInsidePanel ==
    Returned =>
        \A i \in PanelIdx : \A k \in 1..Len(panels[i].cutouts) :
            LET cut == panels[i].cutouts[k]
            IN  /\ Exact(0) \preceq cut.x_in
                /\ Exact(0) \preceq cut.y_in
                /\ (cut.x_in (+) cut.width_in) \preceq panels[i].w
                /\ (cut.y_in (+) cut.height_in) \preceq panels[i].h

-----------------------------------------------------------------------------
(* Scenarios *)

\* Scenario A: 240 x 108 wall, no openings, min_width 24, max_width 138,
\* short_max 138, long_max 348, increment 1, spacing 0.125, vertical.
ScenarioA ==
    /\ wall_width = Double(240000) /\ wall_height = Double(108000)
    /\ openings = <<>>
    /\ constraints = PanelConstraints(24000, 138000, 24000, 348000,
                                      138000, 348000, 1000, 125)
    /\ orientation = vertical

\* C6: Scenario A returns exactly two panels of height 108 whose widths plus
\* one spacing gap sum to 240, none wider than max_width.
C6_ScenarioA_TwoPanels ==
    (ScenarioA /\ Returned) =>
        /\ Len(panels) = 2
        /\ \A i \in PanelIdx : panels[i].h = Double(108000)
        /\ \A i \in PanelIdx : panels[i].w \preceq constraints.max_width
        /\ ((panels[1].w (+) constraints.panel_spacing) (+) panels[2].w)
               = Double(240000)

\* Scenario B: one door x=100, y=0, w=36, h=84 with clearances 6/8/6 in a
\* 240 x 108 wall, max_width 138.
ScenarioBDoor ==
    Opening(<<"1">>, Door, Double(100000), Double(0), Double(36000),
            Double(84000), OpeningClearances(6000, 8000, 6000))

ScenarioB ==
    /\ wall_width = Double(240000) /\ wall_height = Double(108000)
    /\ openings = <<ScenarioBDoor>>
    /\ constraints.max_width = Double(138000)

\* A panel covers the door and carries a cutout record for it that equals
\* the box [94, 142] x [0, top] cut to the panel and moved to its origin.
DoorCutoutWithTop(top) ==
    \E i \in PanelIdx :
        /\ panels[i].x \preceq Double(100000)
        /\ (panels[i].x (+) panels[i].w) \succeq Double(136000)
        /\ panels[i].y \preceq Double(0)
        /\ (panels[i].y (+) panels[i].h) \succeq Double(84000)
        /\ \E k \in 1..Len(panels[i].cutouts) :
              LET cut == panels[i].cutouts[k]
                  l == DoubleMax(panels[i].x, Double(94000))
                  r == DoubleMin(panels[i].x (+) panels[i].w, Double(142000))
                  b == DoubleMax(panels[i].y, Double(0))
                  t == DoubleMin(panels[i].y (+) panels[i].h, Double(top))
              IN  /\ cut.id = ScenarioBDoor.id
                  /\ cut.x_in = l (-) panels[i].x
                  /\ cut.y_in = b (-) panels[i].y
                  /\ cut.width_in = r (-) l
                  /\ cut.height_in = t (-) b

DoorIsCutout ==
    /\ is_cutout_opening(ScenarioBDoor, constraints)
    /\ ~IsBlocker(ScenarioBDoor)

\* C7 as stated: in Scenario B the door is a Cutout and a panel covering it
\* carries a cutout equal to the clearance box x 94..142, y 0..98.
C7_ScenarioB_Box98 ==
    (ScenarioB /\ Returned) => (DoorIsCutout /\ DoorCutoutWithTop(98000))

\* C7 amended: in Scenario B the door is a Cutout and a panel covering it
\* carries a cutout equal to the clearance box x 94..142, y 0..92
\* (top = y + h + header = 0 + 84 + 8), cut to the panel and moved to the
\* panel's origin.
C7_ScenarioB_Box92 ==
    (ScenarioB /\ Returned) => (DoorIsCutout /\ DoorCutoutWithTop(92000))

C7_Witness ==
    /\ ScenarioB /\ Returned
    /\ \E i \in PanelIdx : \E k \in 1..Len(panels[i].cutouts) :
           panels[i].cutouts[k].id = ScenarioBDoor.id

-----------------------------------------------------------------------------
(* Region splitting *)

BlockerSet ==
    {openings[k] : k \in {j \in 1..Len(openings) :
                             is_blocking_storefront(openings[j], constraints)}}

BoundarySet ==
    {Exact(0), wall_width} \cup {left_clearance_zone(b) : b \in BlockerSet}
                           \cup {right_clearance_zone(b) : b \in BlockerSet}

\* Adjacent boundaries, at least min_width apart, that meet no Blocker's
\* open span (left_clearance_zone, right_clearance_zone).
SurvivingSegments ==
    {s \in BoundarySet \X BoundarySet :
        /\ s[1] \prec s[2]
        /\ ~\E m \in BoundarySet : s[1] \prec m /\ m \prec s[2]
        /\ (s[2] (-) s[1]) \succeq constraints.min_width
        /\ \A b \in BlockerSet :
               \/ s[2] \preceq left_clearance_zone(b)
               \/ s[1] \succeq right_clearance_zone(b)}

RegionSpans == {<<regions[i].x_start, regions[i].x_end>> : i \in 1..Len(regions)}

\* A storefront of width 200 is the only opening of a 240-wide wall and
\* max_width is 138.
ScenarioC ==
    /\ wall_width = Double(240000)
    /\ constraints.max_width = Double(138000)
    /\ Len(openings) = 1
    /\ is_storefront_like(openings[1])
    /\ openings[1].w = Double(200000)

\* C8: with at least one Blocker the regions are exactly the segments
\* between adjacent sorted de-duplicated boundaries that are at least
\* min_width wide and meet no Blocker span, in ascending order; in Scenario
\* C the storefront is a Blocker and the regions are its flanking segments
\* of width >= min_width.
C8_RegionsAreSurvivingSegments ==
    (pc # "start") =>
        /\ BlockerSet # {} =>
              /\ RegionSpans = SurvivingSegments
              /\ Len(regions) = Cardinality(SurvivingSegments)
              /\ \A i \in 1..Len(regions) :
                     /\ regions[i].y_start = Exact(0)
                     /\ regions[i].y_end = wall_height
                     /\ i > 1 => regions[i - 1].x_end \preceq regions[i].x_start
        /\ ScenarioC =>
              /\ IsBlocker(openings[1])
              /\ RegionSpans =
                     {s \in {<<Exact(0), left_clearance_zone(openings[1])>>,
                             <<right_clearance_zone(openings[1]), wall_width>>} :
                         (s[2] (-) s[1]) \succeq constraints.min_width}

\* Scenario C has been split: the left flank survives, the storefront span
\* is blocked and the right flank is narrower than min_width.
C8_Witness ==
    /\ ScenarioC /\ Returned
    /\ Len(regions) = 1
    /\ regions[1].x_end = left_clearance_zone(openings[1])
    /\ (wall_width (-) right_clearance_zone(openings[1]))
           \prec constraints.min_width
    /\ Len(panels) > 0

-----------------------------------------------------------------------------
(* Classification *)

Classified == pc # "start"

ClearanceSpan(o) == right_clearance_zone(o) (-) left_clearance_zone(o)

\* C9 as stated: every storefront-like opening is a Blocker.
C9_StorefrontAlwaysBlocker ==
    Classified =>
        \A k \in 1..Len(openings) :
            is_storefront_like(openings[k]) => IsBlocker(openings[k])

\* C9 amended: a storefront-like opening is a Blocker exactly when its
\* clearance span right_clearance_zone - left_clearance_zone exceeds
\* max_width; otherwise it is a regular opening that is treated as a Cutout.
C9_StorefrontBlockerIffSpanExceeds ==
    Classified =>
        \A k \in 1..Len(openings) :
            is_storefront_like(openings[k]) =>
                /\ IsBlocker(openings[k]) <=>
                       ((((openings[k].x (+) openings[k].w)
                              (+) openings[k].clearances.jamb_min)
                          (-) DoubleMax(Exact(0),
                                        openings[k].x
                                            (-) openings[k].clearances.jamb_min))
                        \succ constraints.max_width)
                /\ ~IsBlocker(openings[k]) =>
                       /\ \E j \in 1..Len(regular_openings) :
                              regular_openings[j] = openings[k]
                       /\ is_cutout_opening(openings[k], constraints)
                       /\ \A j \in 1..Len(gap_openings) :
                              gap_openings[j] # openings[k]

\* A storefront-like opening whose span fits max_width was not made a
\* Blocker, and a returned panel carries a cutout for it.
C9_Witness ==
    /\ Returned
    /\ \E k \in 1..Len(openings) :
           /\ is_storefront_like(openings[k])
           /\ ClearanceSpan(openings[k]) \preceq constraints.max_width
           /\ ~IsBlocker(openings[k])
           /\ \E i \in PanelIdx : \E c \in 1..Len(panels[i].cutouts) :
                  panels[i].cutouts[c].id = openings[k].id

RequiredSpan(o) == o.w (+) DoubleMul(2, o.clearances.jamb_min)

\* The non-cutout openings of the current region have been collected.
GapOpeningsKnown == pc = "adjust"

InGapOpenings(o) == \E j \in 1..Len(gap_openings) : gap_openings[j] = o

\* C10 as stated: an opening that is not storefront-like is a Cutout iff
\* w + 2*jamb_min <= max_width, and a Blocker otherwise.
C10_CutoutIffSpanFits ==
    Classified =>
        \A k \in 1..Len(openings) :
            ~is_storefront_like(openings[k]) =>
                /\ is_cutout_opening(openings[k], constraints) <=>
                       (RequiredSpan(openings[k]) \preceq constraints.max_width)
                /\ IsBlocker(openings[k]) <=>
                       (RequiredSpan(openings[k]) \succ constraints.max_width)

\* C10 amended: an opening that is not storefront-like is a Cutout iff
\* w < 72 and h < 120 (fixed thresholds, whatever jamb_min and max_width
\* are), and it is never a Blocker; the region's gap_openings are its
\* openings that fail the thresholds.
C10_CutoutIffSmall ==
    /\ Classified =>
          \A k \in 1..Len(openings) :
              ~is_storefront_like(openings[k]) =>
                  /\ is_cutout_opening(openings[k], constraints) <=>
                         /\ openings[k].w \prec Double(72000)
                         /\ openings[k].h \prec Double(120000)
                  /\ ~IsBlocker(openings[k])
    /\ GapOpeningsKnown =>
          \A k \in 1..Len(CurRegion.openings) :
              ~is_storefront_like(CurRegion.openings[k]) =>
                  (InGapOpenings(CurRegion.openings[k]) <=>
                       ~(CurRegion.openings[k].w \prec Double(72000) /\
                         CurRegion.openings[k].h \prec Double(120000)))

\* A door 80 wide whose required span 92 fits max_width 138 was classified:
\* it is neither a Cutout nor a Blocker, and the run has returned.
C10_Witness ==
    /\ Returned
    /\ \E k \in 1..Len(openings) :
           /\ ~is_storefront_like(openings[k])
           /\ openings[k].w \succeq Double(72000)
           /\ RequiredSpan(openings[k]) \preceq constraints.max_width
           /\ ~is_cutout_opening(openings[k], constraints)
           /\ ~IsBlocker(openings[k])
    /\ Len(panels) > 0

\* C11 as stated: every opening is exactly one of Blocker and Cutout, never
\* both and never neither.
C11_ExactlyOneOfBlockerCutout ==
    Classified =>
        \A k \in 1..Len(openings) :
            IsBlocker(openings[k]) # is_cutout_opening(openings[k], constraints)

\* C11 amended: no opening is both a Blocker and a Cutout; a storefront-like
\* opening is exactly one of the two; an opening that is not storefront-like
\* is neither when w >= 72 or h >= 120 (it is an obstacle of the sequential
\* placer), and a Cutout otherwise.
C11_AtMostOneOfBlockerCutout ==
    Classified =>
        \A k \in 1..Len(openings) :
            LET o == openings[k]
                cut == is_cutout_opening(o, constraints)
                otype == lower(o.type)
            IN  /\ ~(IsBlocker(o) /\ cut)
                /\ (~IsBlocker(o) /\ ~cut) <=>
                       /\ ~Contains(otype, storefront)
                       /\ ~Contains(otype, curtain)
                       /\ (o.w \succeq Double(72000) \/ o.h \succeq Double(120000))

\* A wall whose openings were classified three ways within one run: one is
\* a Blocker and another is neither a Blocker nor a Cutout.
C11_Witness ==
    /\ Returned
    /\ \E k, j \in 1..Len(openings) :
           /\ IsBlocker(openings[k])
           /\ ~is_cutout_opening(openings[k], constraints)
           /\ ~IsBlocker(openings[j])
           /\ ~is_cutout_opening(openings[j], constraints)

-----------------------------------------------------------------------------
(* Panel names *)

\* C12: at every point of a call the k-th panel of the list, in placement
\* order over the sequential, region gap-fill and global gap-fill phases, is
\* named "P" followed by the two decimal digits of k; names are unique and
\* consecutive from P01 in every call, and the counter is one ahead of the
\* list.
C12_PanelsNamedInOrder ==
    /\ \A k \in PanelIdx :
           k < 100 =>
               panels[k].name = <<"P", DigitChar[(k \div 10) + 1],
                                  DigitChar[(k % 10) + 1]>>
    /\ \A i, j \in PanelIdx : i # j => panels[i].name # panels[j].name
    /\ Classified => panel_counter = Len(panels) + 1

\* A call with full-height bands returned more than nine panels, the tenth
\* named P10 after P09, and the last of them was added by gap filling
\* (it does not start at the floor).
C12_Witness ==
    /\ Returned
    /\ orientation = vertical
    /\ Len(panels) >= 10
    /\ panels[9].name = <<"P", "0", "9">>
    /\ panels[10].name = <<"P", "1", "0">>
    /\ panels[Len(panels)].y \succ Exact(0)

-----------------------------------------------------------------------------
(* Panel validation *)

\* The sequential placer is about to validate the width it computed for
\* the current band (line 909).
ValidationPoint ==
    /\ pc = "place"
    /\ LoopContinues
    /\ ~can_bridge
    /\ ~(dist_to_stop \prec constraints.min_width)

\* C13: is_valid_panel(w, h, constraints) is true if and only if
\* min_width <= w <= max_width, min_height <= h <= max_height, w <= long_max,
\* h <= long_max and at least one of w, h is <= short_max.
C13_ValidIffWithinAllLimits ==
    LET Limits(w, h, c) ==
            is_valid_panel(w, h, c) <=>
                /\ c.min_width \preceq w /\ w \preceq c.max_width
                /\ c.min_height \preceq h /\ h \preceq c.max_height
                /\ w \preceq c.long_max /\ h \preceq c.long_max
                /\ (w \preceq c.short_max \/ h \preceq c.short_max)
    IN  ValidationPoint => Limits(computed_panel_w, band_height, constraints)

-----------------------------------------------------------------------------
(* Termination *)

\* C14: place_panels_sequential terminates for every wall, opening list and
\* constraints with positive fields, a dimension_increment larger than
\* min_width and an arbitrarily small panel_spacing included: the per-band
\* cursor loop finishes after finitely many iterations. The branch an
\* iteration takes depends on the cursor alone, so the loop finishes only
\* if every iteration that stays in the band moves the cursor forward; an
\* iteration that leaves the cursor in place is repeated for ever.
C14_CursorLoopAdvances ==
    [][(pc = "place" /\ pc' = "place" /\ ri' = ri /\ bi' = bi)
           => x_cursor' \succ x_cursor]_vars

-----------------------------------------------------------------------------
(* Input handling of process_all_walls *)

\* A cell that is missing, non-numeric or <= 0.
CellInvalid(cell) ==
    \/ cell.kind = "missing"
    \/ cell.kind = "text"
    \/ cell.kind = "num" /\ cell.v <= 0

InvalidWallRow(row) ==
    CellInvalid(row.Length) \/ CellInvalid(row.UnconnectedHeight)

InvalidOpeningRow(row) == CellInvalid(row.Width) \/ CellInvalid(row.Height)

WithoutInvalidRows(rows) ==
    SelectSeq(rows, LAMBDA r : ~InvalidOpeningRow(r))

\* A wall is being processed by place_panels_sequential.
InsideWall == pc \notin {"rows", "finished"}

\* C15: process_all_walls handles its rows on a best-effort basis and
\* produces what it produces on the input without the invalid rows. A wall
\* row whose length or height is missing, non-numeric or <= 0 is passed
\* over and leaves the records as they are, every other wall row is
\* processed; the wall and the openings handed to place_panels_sequential
\* are those read from the rows with the invalid opening rows (width or
\* height missing, non-numeric or <= 0) removed.
C15_InvalidRowsIgnored ==
    /\ [](InsideWall =>
             /\ ~InvalidWallRow(walls_rows[wi])
             /\ wall_width = DoubleMul(12, Double(walls_rows[wi].Length.v))
             /\ wall_height =
                    DoubleMul(12, Double(walls_rows[wi].UnconnectedHeight.v))
             /\ openings = get_wall_openings(get_wall_id(walls_rows[wi]),
                               WithoutInvalidRows(openings_rows),
                               call.door_clearances, call.window_clearances,
                               call.storefront_clearances)
             /\ \A k \in 1..Len(openings) :
                    openings[k].w \succ Exact(0) /\ openings[k].h \succ Exact(0))
    /\ [][(pc = "rows" /\ wi <= Len(walls_rows)) =>
              IF InvalidWallRow(walls_rows[wi])
              THEN /\ pc' = "rows"
                   /\ wi' = wi + 1
                   /\ all_panel_records' = all_panel_records
              ELSE pc' = "start"]_vars

\* All rows were handled: an invalid wall row and an invalid opening row of
\* the processed wall were among them, and a record of the wall carries the
\* cutout of a valid opening row.
C15_Witness ==
    /\ pc = "finished"
    /\ \E j \in 1..Len(walls_rows) : InvalidWallRow(walls_rows[j])
    /\ \E j \in 1..Len(openings_rows) :
           /\ InvalidOpeningRow(openings_rows[j])
           /\ \E r \in 1..Len(all_panel_records) :
                  all_panel_records[r].wall_id = openings_rows[j].HostWallId
    /\ \E r \in 1..Len(all_panel_records) :
           Len(all_panel_records[r].cutouts) > 0

-----------------------------------------------------------------------------
(* Spacing between panels *)

\* C16: any two distinct returned panels, those of stacked bands and of gap
\* filling included, are separated by a gap of at least panel_spacing in x
\* or in y.
C16_SpacingRespected ==
    Returned =>
        \A i, j \in PanelIdx :
            i # j =>
                \/ ((panels[i].x (+) panels[i].w) (+) constraints.panel_spacing)
                       \preceq panels[j].x
                \/ ((panels[j].x (+) panels[j].w) (+) constraints.panel_spacing)
                       \preceq panels[i].x
                \/ ((panels[i].y (+) panels[i].h) (+) constraints.panel_spacing)
                       \preceq panels[j].y
                \/ ((panels[j].y (+) panels[j].h) (+) constraints.panel_spacing)
                       \preceq panels[i].y

-----------------------------------------------------------------------------
(* Inputs are not mutated *)

\* C17: no step of place_panels_sequential assigns its arguments: every
\* Opening keeps its id, type, x, y, w, h and its clearances' jamb_min,
\* header_min and sill_min, the constraints keep their fields, and when the
\* function is called again on the same objects each opening is classified
\* as in the call that returned (Blocker as recorded in
\* blocking_storefronts, Cutout as is_cutout_opening said).
C17_InputsNeverMutated ==
    [][/\ Len(openings') = Len(openings)
       /\ \A k \in 1..Len(openings) :
              /\ openings'[k].id = openings[k].id
              /\ openings'[k].type = openings[k].type
              /\ openings'[k].x = openings[k].x
              /\ openings'[k].y = openings[k].y
              /\ openings'[k].w = openings[k].w
              /\ openings'[k].h = openings[k].h
              /\ openings'[k].clearances.jamb_min
                     = openings[k].clearances.jamb_min
              /\ openings'[k].clearances.header_min
                     = openings[k].clearances.header_min
              /\ openings'[k].clearances.sill_min
                     = openings[k].clearances.sill_min
       /\ constraints' = constraints
       /\ (pc = "done" /\ pc' = "start") =>
              \A k \in 1..Len(openings) :
                  /\ is_blocking_storefront(openings'[k], constraints')
                         = IsBlocker(openings[k])
                  /\ is_cutout_opening(openings'[k], constraints')
                         = is_cutout_opening(openings[k], constraints)]_vars

\* The function has returned and is entered again with the same wall: one
\* of its openings was a Blocker of the finished call and another was a
\* Cutout.
C17_Witness ==
    /\ pc = "start"
    /\ last = "again"
    /\ \E k, j \in 1..Len(openings) :
           /\ is_blocking_storefront(openings[k], constraints)
           /\ is_cutout_opening(openings[j], constraints)

-----------------------------------------------------------------------------
(* calculate_segment_layout *)

\* The panel counts N of 1..100 whose equal share (d - (N - 1) * spacing) / N
\* is at most max_w.
FittingCounts(d, max_w, spacing) ==
    {N \in 1..100 : QuotientLe(d (-) DoubleMul(N - 1, spacing), N, max_w)}

LeastOf(S) == CHOOSE n \in S : \A m \in S : n <= m

\* C18: with d = target - start, calculate_segment_layout returns d if
\* d < min_w; snap_down(d, inc) if min_w <= d <= max_w; otherwise, for the
\* smallest N of 1..100 with (d - (N-1)*spacing)/N <= max_w, snap_down of
\* that quotient, or max_w when the quotient is below min_w or there is no
\* such N; and the result never exceeds max_w when d >= min_w.
C18_SegmentLayoutResult ==
    (pc = "layout_done") =>
        LET a  == layout_call
            d  == a.target_x (-) a.start_x
            Ns == FittingCounts(d, a.max_w, a.spacing)
            N  == LeastOf(Ns)
        IN  /\ d \prec a.min_w => a.result = d
            /\ (a.min_w \preceq d /\ d \preceq a.max_w) =>
                   a.result = snap_down(d, a.inc)
            /\ (a.min_w \preceq d /\ d \succ a.max_w /\ Ns = {}) =>
                   a.result = a.max_w
            /\ (a.min_w \preceq d /\ d \succ a.max_w /\ Ns # {}) =>
                   IF QuotientLt(d (-) DoubleMul(N - 1, a.spacing), N, a.min_w)
                   THEN a.result = a.max_w
                   ELSE a.result =
                            SnapDownQuotient(d (-) DoubleMul(N - 1, a.spacing),
                                             N, a.inc)
            /\ d \succeq a.min_w => a.result \preceq a.max_w

\* The call returned a width found by the search: the distance needs three
\* or more panels and the result is the snapped equal share, below max_w.
C18_Witness ==
    /\ pc = "layout_done"
    /\ (layout_call.target_x (-) layout_call.start_x)
           \succ (DoubleMul(2, layout_call.max_w) (+) layout_call.spacing)
    /\ layout_call.result \succeq layout_call.min_w
    /\ layout_call.result \prec layout_call.max_w
    /\ layout_call.result = snap_down(layout_call.result, layout_call.inc)

-----------------------------------------------------------------------------
(* End of a band without openings *)

\* The step leaves the cursor loop of the current band.
BandEnds == pc = "place" /\ (pc' = "gapfill" \/ bi' = bi + 1)

OpenRegion == Len(CurRegion.openings) = 0

\* C19 as stated: in a band of a region without openings the sequential
\* placement stops only when the remaining width, region x_end minus the
\* cursor (the last panel's right edge plus spacing), is below min_width.
C19_BandEndsBelowMinWidth ==
    [][(BandEnds /\ OpenRegion) =>
           (CurRegion.x_end (-) x_cursor) \prec constraints.min_width]_vars

\* C19 amended: in a band of a region without openings the sequential
\* placement stops when the remaining width is below min_width or when the
\* width computed for the next panel fails is_valid_panel; the second
\* happens only if the band height is outside [min_height, long_max],
\* min_width is not a multiple of dimension_increment or min_width exceeds
\* short_max, and then the rest of the band stays uncovered.
C19_BandEndsShortOrInvalid ==
    [][(BandEnds /\ OpenRegion) =>
           /\ \/ (CurRegion.x_end (-) x_cursor) \prec constraints.min_width
              \/ ~is_valid_panel(computed_panel_w, band_height, constraints)
           /\ (/\ band_height \succeq constraints.min_height
               /\ band_height \preceq constraints.long_max
               /\ snap_down(constraints.min_width,
                            constraints.dimension_increment)
                      = constraints.min_width
               /\ constraints.min_width \preceq constraints.short_max)
                  => (CurRegion.x_end (-) x_cursor)
                         \prec constraints.min_width]_vars

\* A wall without openings and taller than long_max was given up: the only
\* band ended with the whole width free and no panel was returned.
C19_Witness ==
    /\ Returned
    /\ openings = <<>>
    /\ wall_height \succ constraints.long_max
    /\ Len(bands) = 1
    /\ x_cursor = Exact(0)
    /\ (wall_width (-) x_cursor) \succeq constraints.min_width
    /\ panels = <<>>

-----------------------------------------------------------------------------
(* Bridging *)

\* The step is an iteration of the cursor loop that takes the bridge branch.
BridgeTaken ==
    /\ pc = "place"
    /\ LoopContinues
    /\ can_bridge
    /\ Len(panels') = Len(panels) + 1

\* C20: whenever the bridge branch is taken for an opening, the panel it
\* places starts at the cursor and covers the opening's clearance x-span
\* (panel.x <= left_clearance_zone and panel.x + panel.w >=
\* right_clearance_zone), and the cursor advances by the panel width plus
\* spacing.
C20_BridgeCoversClearanceSpan ==
    [][BridgeTaken =>
           LET p == panels'[Len(panels')]
           IN  /\ p.x = x_cursor
               /\ p.x \preceq left_clearance_zone(next_opening)
               /\ (p.x (+) p.w) \succeq right_clearance_zone(next_opening)
               /\ x_cursor' =
                      x_cursor (+) (p.w (+) constraints.panel_spacing)]_vars

-----------------------------------------------------------------------------
(* Seam validation *)

\* The step is an iteration of the cursor loop that records a panel.
SequentialPanelPlaced == pc = "place" /\ Len(panels') = Len(panels) + 1

\* C21: no panel placed by the sequential phase, bridge panels included,
\* has its right edge strictly inside the clearance x-span
\* (left_clearance_zone, right_clearance_zone) of an opening of its region.
C21_SeamOutsideClearanceSpans ==
    [][SequentialPanelPlaced =>
           LET p == panels'[Len(panels')]
           IN  \A k \in 1..Len(CurRegion.openings) :
                   ~(/\ left_clearance_zone(CurRegion.openings[k])
                            \prec (p.x (+) p.w)
                     /\ (p.x (+) p.w)
                            \prec right_clearance_zone(CurRegion.openings[k]))]_vars

-----------------------------------------------------------------------------
(* Stop and hop *)

\* The iteration of the cursor loop that starts here finds a next opening
\* and its bridge test fails: the opening's left clearance edge is the
\* hard stop.
StopsAtOpening == pc = "place" /\ LoopContinues /\ target_is_opening

\* The step stays inside the cursor loop of the current band.
StaysInBand == pc' = "place" /\ bi' = bi /\ ri' = ri

\* The panels the cursor loop has placed in the current band so far.
BandPanelIdx ==
    {i \in PanelIdx : /\ panels[i].y = CurBand.y_start
                      /\ panels[i].x \succeq CurRegion.x_start
                      /\ panels[i].x \prec CurRegion.x_end}

\* The openings the iteration at cursor position c looks ahead to, the one
\* it takes as next_opening among them, and its bridge test.
FutureOpeningsAt(c) ==
    SelectSeq(CurRegion.openings, LAMBDA o :
        /\ left_clearance_zone(o) \succ (c (+) Double(FutureTol))
        /\ ~(top_clearance_zone(o) \preceq CurBand.y_start \/
             bottom_clearance_zone(o) \succeq CurBand.y_end)
        /\ ~is_cutout_opening(o, constraints))

\* min(future_openings, key=...): the first of the leftmost ones.
IsNextOpeningAt(c, o) ==
    /\ Len(FutureOpeningsAt(c)) > 0
    /\ FirstLeftmost(FutureOpeningsAt(c)) = o

BridgeFailsAt(c, o) ==
    \/ (right_clearance_zone(o) (-) c) \succ max_width_for_band
    \/ (right_clearance_zone(o) (-) c) \prec constraints.min_width

\* C22: when the bridge test fails for the next opening of a band, a panel
\* placed by that iteration ends at or before the opening's
\* left_clearance_zone; the cursor never moves backwards, and when it passes
\* the left_clearance_zone it is at the opening's right_clearance_zone, from
\* where the next panel of the band starts; no panel that the band's
\* sequential phase places from then on intersects the opening's clearance
\* x-span.
C22_StopAndHop ==
    /\ [][(StopsAtOpening /\ StaysInBand) =>
              /\ Len(panels') > Len(panels) =>
                     LET p == panels'[Len(panels')]
                     IN  /\ p.x = x_cursor
                         /\ (p.x (+) p.w)
                                \preceq left_clearance_zone(next_opening)
              /\ x_cursor' \succeq x_cursor
              /\ x_cursor' \succ left_clearance_zone(next_opening) =>
                     x_cursor' = right_clearance_zone(next_opening)]_vars
    /\ [](pc = "place" =>
             \A i \in BandPanelIdx : \A k \in 1..Len(CurRegion.openings) :
                 LET o == CurRegion.openings[k]
                 IN  (IsNextOpeningAt(panels[i].x, o) /\ BridgeFailsAt(panels[i].x, o))
                         => \A j \in BandPanelIdx :
                                j >= i =>
                                    \/ (panels[j].x (+) panels[j].w)
                                           \preceq left_clearance_zone(o)
                                    \/ panels[j].x \succeq right_clearance_zone(o))

-----------------------------------------------------------------------------
(* Gap filling *)

\* The step runs fill_vertical_gap (the region gap fill or the global fill)
\* and the calls append panels.
GapFillAppends ==
    /\ pc \in {"gapfill", "global"}
    /\ Len(panels') > Len(panels)

OverlapsClearanceRect(p, o) ==
    ~(\/ (p.x (+) p.w) \preceq left_clearance_zone(o)
      \/ p.x \succeq right_clearance_zone(o)
      \/ (p.y (+) p.h) \preceq bottom_clearance_zone(o)
      \/ p.y \succeq top_clearance_zone(o))

\* C23: no panel that fill_vertical_gap appends overlaps a panel that is
\* already in the list, and none overlaps the clearance rectangle of a
\* Blocker opening.
C23_GapFillRejectsOverlaps ==
    [][GapFillAppends =>
           \A j \in (Len(panels) + 1)..Len(panels') :
               /\ \A i \in 1..(j - 1) : ~panels_overlap(panels'[j], panels'[i])
               /\ \A k \in 1..Len(blocking_storefronts) :
                      ~OverlapsClearanceRect(panels'[j],
                                             blocking_storefronts[k])]_vars

\* The rectangle of a Blocker's own x-span between the heights y_lo, y_hi.
SpanBand(b, y_lo, y_hi) ==
    [x |-> left_clearance_zone(b), y |-> y_lo,
     w |-> right_clearance_zone(b) (-) left_clearance_zone(b),
     h |-> y_hi (-) y_lo]

InsideRect(p, r) ==
    /\ r.x \preceq p.x /\ (p.x (+) p.w) \preceq (r.x (+) r.w)
    /\ r.y \preceq p.y /\ (p.y (+) p.h) \preceq (r.y (+) r.h)

\* A panel as tall as the band is valid (at most short_max), and no panel
\* from outside reaches into the band.
BandOpen(r) ==
    /\ r.h \preceq constraints.short_max
    /\ \A i \in PanelIdx : panels_overlap(panels[i], r) => InsideRect(panels[i], r)

BandFilled(r) == \E i \in PanelIdx : InsideRect(panels[i], r)

\* fill_vertical_gap, called by the global pass for the band y_lo..y_hi of
\* the Blocker b, gets past its early return.
GlobalBandFillable(b, y_lo, y_hi) ==
    BandFillable(FillZone(left_clearance_zone(b), right_clearance_zone(b),
                          left_clearance_zone(b), right_clearance_zone(b),
                          constraints, TRUE),
                 y_lo, y_hi, constraints)

\* C24: after all regions are processed the global pass gap-fills above and
\* below every Blocker's own x-span: the band from top_clearance_zone to
\* wall_height and the band from 0 to bottom_clearance_zone each hold
\* panels when the band is at least min_height and at most short_max tall,
\* at least min_width wide and free of other panels.
C24_GlobalFillAboveAndBelow ==
    Returned =>
        \A k \in 1..Len(blocking_storefronts) :
            LET b == blocking_storefronts[k]
                above == SpanBand(b, top_clearance_zone(b), wall_height)
                below == SpanBand(b, Exact(0), bottom_clearance_zone(b))
            IN  /\ (/\ GlobalBandFillable(b, top_clearance_zone(b), wall_height)
                    /\ BandOpen(above)) => BandFilled(above)
                /\ (/\ GlobalBandFillable(b, Exact(0), bottom_clearance_zone(b))
                    /\ BandOpen(below)) => BandFilled(below)

\* The opening leaves no band below or above it.
SpansWallHeight(o) ==
    /\ bottom_clearance_zone(o) \preceq Exact(0)
    /\ top_clearance_zone(o) \succeq wall_height

\* The part of the current region below or above an opening's clearance
\* x-span.
RegionBand(o, y_lo, y_hi) ==
    LET x_lo == DoubleMax(left_clearance_zone(o), CurRegion.x_start)
        x_hi == DoubleMin(right_clearance_zone(o), CurRegion.x_end)
    IN  [x |-> x_lo, y |-> y_lo, w |-> x_hi (-) x_lo, h |-> y_hi (-) y_lo]

\* fill_vertical_gap, called by the region's gap fill for the band
\* y_lo..y_hi of the opening o, gets past its early return.
RegionBandFillable(o, y_lo, y_hi, is_storefront) ==
    BandFillable(FillZone(CurRegion.x_start, CurRegion.x_end,
                          left_clearance_zone(o), right_clearance_zone(o),
                          constraints, is_storefront),
                 y_lo, y_hi, constraints)

\* C25 as stated: region gap filling is attempted for each Cutout-classified
\* opening of the region that does not span the full wall height.
C25_GapFillAroundCutouts ==
    GapOpeningsKnown =>
        \A k \in 1..Len(CurRegion.openings) :
            LET o == CurRegion.openings[k]
            IN  (is_cutout_opening(o, constraints) /\ ~SpansWallHeight(o))
                    => InGapOpenings(o)

\* C25 amended: region gap filling is attempted for each opening of the
\* region that is NOT Cutout-classified and does not span the full wall
\* height, and for no Cutout-classified opening: the bands
\* 0..bottom_clearance_zone and top_clearance_zone..wall_height of such an
\* opening hold panels after the region's gap fill whenever they are
\* fillable (at least min_height and at most short_max tall, at least
\* min_width wide, free of other panels).
C25_GapFillAroundNonCutouts ==
    GapOpeningsKnown =>
        \A k \in 1..Len(CurRegion.openings) :
            LET o == CurRegion.openings[k]
                below == RegionBand(o, Exact(0), bottom_clearance_zone(o))
                above == RegionBand(o, top_clearance_zone(o), wall_height)
            IN  /\ InGapOpenings(o) <=> ~is_cutout_opening(o, constraints)
                /\ (~is_cutout_opening(o, constraints) /\ ~SpansWallHeight(o)) =>
                       /\ (/\ RegionBandFillable(o, Exact(0),
                                                 bottom_clearance_zone(o), FALSE)
                           /\ BandOpen(below)) => BandFilled(below)
                       /\ (/\ RegionBandFillable(o, top_clearance_zone(o),
                                                 wall_height,
                                                 is_storefront_like(o))
                           /\ BandOpen(above)) => BandFilled(above)

\* The gap fill of a region has run: one of its openings is not a Cutout
\* and the free band above it received a panel, another one is a Cutout
\* with a band above it of min_height or more and was left out.
C25_Witness ==
    /\ GapOpeningsKnown
    /\ \E k, j \in 1..Len(CurRegion.openings) :
           LET o == CurRegion.openings[k]
               c == CurRegion.openings[j]
           IN  /\ ~is_cutout_opening(o, constraints)
               /\ InGapOpenings(o)
               /\ \E i \in PanelIdx :
                      /\ panels[i].y = top_clearance_zone(o)
                      /\ InsideRect(panels[i],
                             RegionBand(o, top_clearance_zone(o), wall_height))
               /\ is_cutout_opening(c, constraints)
               /\ (wall_height (-) top_clearance_zone(c))
                      \succeq constraints.min_height
               /\ ~InGapOpenings(c)

-----------------------------------------------------------------------------
(* Seam adjustment *)

\* The seam adjustment of the current region is about to run.
AdjustPoint == pc = "adjust"

\* The panel list after the loop of adjust_panels_for_small_openings has
\* handled the first j openings of the region.
RECURSIVE AdjustedUpTo(_)
AdjustedUpTo(j) ==
    IF j = 0 THEN panels
    ELSE AdjustForOpening(AdjustedUpTo(j - 1),
                          RegionPanelIdx(panels, CurRegion),
                          CurRegion.openings[j], constraints,
                          constraints.dimension_increment)

ChangedBy(j) ==
    {i \in PanelIdx : AdjustedUpTo(j)[i] # AdjustedUpTo(j - 1)[i]}

\* The seam between the panels l and r was moved for the opening o.
SeamMovedFor(before, after, l, r, o) ==
    /\ after[r].x = snap_down(o.x, constraints.dimension_increment)
    /\ ((after[l].x (+) after[l].w) (+) constraints.panel_spacing) = after[r].x
    /\ after[l].x = before[l].x
    /\ (after[r].x (+) after[r].w) = (before[r].x (+) before[r].w)
    /\ after[l].w \succeq constraints.min_width
    /\ after[r].w \succeq constraints.min_width
    /\ \A i \in PanelIdx : i \notin {l, r} => after[i] = before[i]

OpeningInsidePanel(o, p) ==
    p.x \preceq o.x /\ (o.x (+) o.w) \preceq (p.x (+) p.w)

\* C26: whenever adjust_panels_for_small_openings moves a seam for a small
\* opening o (o.w < 72 and o.h < 120), afterwards right.x =
\* snap_down(o.x, increment), left.x + left.w + spacing = right.x, left.x
\* and right's right edge are unchanged, both widths are >= min_width and
\* the span [o.x, o.x + o.w] lies inside the right-hand panel's x-range; at
\* most one seam is moved per opening per call.
C26_SeamAdjustPostcondition ==
    AdjustPoint =>
        \A j \in 1..Len(CurRegion.openings) :
            ChangedBy(j) # {} =>
                LET o == CurRegion.openings[j]
                    before == AdjustedUpTo(j - 1)
                    after  == AdjustedUpTo(j)
                IN  /\ o.w \prec Double(72000) /\ o.h \prec Double(120000)
                    /\ \E l, r \in ChangedBy(j) :
                           /\ l # r
                           /\ SeamMovedFor(before, after, l, r, o)
                           /\ OpeningInsidePanel(o, after[r])

\* The openings of the region whose iteration changes panel i.
AdjustmentsOf(i) == {j \in 1..Len(CurRegion.openings) : i \in ChangedBy(j)}

\* C27: during one wall run the x and w of a panel are changed by at most
\* one seam adjustment after the panel is created (a panel is not the
\* right-hand panel of one moved seam and the left-hand panel of another,
\* nor adjusted for two openings), and its y, h and name never change.
C27_PanelAdjustedAtMostOnce ==
    /\ [](AdjustPoint =>
             \A i \in PanelIdx : Cardinality(AdjustmentsOf(i)) <= 1)
    /\ [][\A i \in PanelIdx :
              i <= Len(panels') =>
                  /\ panels'[i].y = panels[i].y
                  /\ panels'[i].h = panels[i].h
                  /\ panels'[i].name = panels[i].name]_vars

-----------------------------------------------------------------------------
(* Configuration invariant *)

\* C28: starting from a PanelConstraints with min_width < max_width <=
\* long_max and short_max <= long_max, after any sequence of accepted inputs
\* to edit_panel_dimensions the constraints still satisfy
\* min_width < max_width <= long_max and short_max <= long_max.
C28_ConfigInvariantKept ==
    /\ Lt(constraints.min_width, constraints.max_width)
    /\ Le(constraints.max_width, constraints.long_max)
    /\ Le(constraints.short_max, constraints.long_max)

-----------------------------------------------------------------------------
(* Global configuration state *)

\* A step that enters process_wall from the top level.
EntersProcessWall == AtTopLevel /\ pc' = "start"

\* A step that enters process_all_walls, from the top level or from main.
EntersProcessAllWalls == (AtTopLevel \/ pc = "main") /\ pc' = "rows"

\* A step that enters main from the top level and runs it up to line 1930.
EntersMain == AtTopLevel /\ pc' = "main"

\* process_wall or process_all_walls is in progress or has returned.
LayoutCallMade == call.fn \in {"process_wall", "process_all_walls"}

\* The statement of C29 as the specification words it: ACTIVE_CONFIG, once
\* not None, is replaced only by the config argument of process_all_walls.
C29_ActiveConfigSticks ==
    /\ [](LayoutCallMade =>
              /\ ACTIVE_CONFIG # None
              /\ orientation = ACTIVE_CONFIG.panel_orientation
              /\ constraints = ACTIVE_CONFIG.panel_constraints)
    /\ [][/\ (ACTIVE_CONFIG # None /\ ACTIVE_CONFIG' # ACTIVE_CONFIG) =>
               /\ EntersProcessAllWalls
               /\ call'.config # None
               /\ ACTIVE_CONFIG' = call'.config
          /\ (EntersProcessAllWalls /\ call'.config = None
                  /\ ACTIVE_CONFIG # None) =>
               ACTIVE_CONFIG' = ACTIVE_CONFIG
          /\ (EntersProcessWall /\ ACTIVE_CONFIG = None) =>
               ACTIVE_CONFIG' = HorizontalPreset
          /\ (EntersProcessAllWalls /\ call'.config = None
                  /\ ACTIVE_CONFIG = None) =>
             (\A cfg \in Presets :
                   (cfg.panel_orientation = call'.orientation) =>
                       (ACTIVE_CONFIG' = cfg))]_vars

\* C29: ACTIVE_CONFIG, once not None, is replaced only by the config
\* argument of process_all_walls or by main, which assigns the
\* configuration it loaded or created; process_all_walls called with
\* config=None on a non-None ACTIVE_CONFIG keeps it, whatever its
\* orientation argument; on a None ACTIVE_CONFIG process_wall installs the
\* horizontal preset and process_all_walls the preset named by its
\* orientation argument; and the layout of every call is made with the
\* constraints and the orientation of ACTIVE_CONFIG, so it depends on the
\* calls made before.
C29_ActiveConfigReplacedByArgumentOrMain ==
    /\ [](LayoutCallMade =>
              /\ ACTIVE_CONFIG # None
              /\ orientation = ACTIVE_CONFIG.panel_orientation
              /\ constraints = ACTIVE_CONFIG.panel_constraints)
    /\ [][/\ (ACTIVE_CONFIG # None /\ ACTIVE_CONFIG' # ACTIVE_CONFIG) =>
               \/ /\ EntersProcessAllWalls
                  /\ call'.config # None
                  /\ ACTIVE_CONFIG' = call'.config
               \/ /\ EntersMain
                  /\ ACTIVE_CONFIG' = call'.config
          /\ (EntersProcessAllWalls /\ call'.config = None
                  /\ ACTIVE_CONFIG # None) =>
               ACTIVE_CONFIG' = ACTIVE_CONFIG
          /\ (EntersProcessWall /\ ACTIVE_CONFIG = None) =>
               ACTIVE_CONFIG' = HorizontalPreset
          /\ (EntersProcessAllWalls /\ call'.config = None
                  /\ ACTIVE_CONFIG = None) =>
             (\A cfg \in Presets :
                   (cfg.panel_orientation = call'.orientation) =>
                       (ACTIVE_CONFIG' = cfg))]_vars

\* main assigned the horizontal preset, and its process_all_walls, called
\* without a config and with the default orientation "vertical", ended
\* with a record wider than the vertical preset's max_width.
C29_Witness ==
    /\ pc = "finished"
    /\ call.fn = "process_all_walls"
    /\ call.from = "main"
    /\ call.config = None
    /\ call.orientation = vertical
    /\ ACTIVE_CONFIG = HorizontalPreset
    /\ \E i \in 1..Len(all_panel_records) :
          all_panel_records[i].width_in
              \succ VerticalPreset.panel_constraints.max_width

-----------------------------------------------------------------------------
(* Panels stay on the wall *)

\* Every opening lies inside the wall.
OpeningsOnWall ==
    \A k \in 1..Len(openings) :
        /\ Exact(0) \preceq openings[k].x
        /\ (openings[k].x (+) openings[k].w) \preceq wall_width
        /\ Exact(0) \preceq openings[k].y
        /\ (openings[k].y (+) openings[k].h) \preceq wall_height

PanelOnWall(p) ==
    /\ Exact(0) \preceq p.x
    /\ (p.x (+) p.w) \preceq wall_width
    /\ Exact(0) \preceq p.y
    /\ (p.y (+) p.h) \preceq wall_height

\* C30: when every opening lies inside the wall, every panel returned by
\* place_panels_sequential lies inside the wall rectangle, also when the
\* right or top clearance zone of an opening extends beyond the wall.
C30_PanelsStayOnWall ==
    (Returned /\ OpeningsOnWall) =>
        \A i \in PanelIdx : PanelOnWall(panels[i])

====
